---- MODULE Spec2Model ----
(***************************************************************************)
(* Model of scripts/chunk_and_upload.py: the chunker, the identity         *)
(* functions, the change detector and the staging/archive pipeline of      *)
(* main, together with the external index collaborator and the             *)
(* directories and tracking file that main reads and writes.               *)
(*                                                                         *)
(* Python strings are represented run-length encoded: a string is a        *)
(* sequence of runs <<c, n>> (character c repeated n >= 1 times) in which  *)
(* adjacent runs carry different characters.  "x" * 1500 is <<<<"x",1500>>>>.*)
(* Every string operation below is computed on this encoding and gives the *)
(* encoding of the Python result.                                          *)
(***************************************************************************)
EXTENDS Integers, Sequences, FiniteSets, TLC

\* ------------------------------------------------------------------------
\* Program constants
\* ------------------------------------------------------------------------
CHUNK_SIZE_CHARS == 2000
MIN_CHUNK_CHARS == 100
ID_PREFIX_CHARS == 50
UPSERT_BATCH_SIZE == 96
DELETE_BATCH_SIZE == 1000

\* ------------------------------------------------------------------------
\* Strings
\* ------------------------------------------------------------------------
Whitespace == {" ", "\n", "\t"}
Terminators == {".", "!", "?"}

SetMin(S) == CHOOSE x \in S : \A y \in S : x <= y
SetMax(S) == CHOOSE x \in S : \A y \in S : y <= x

\* len(s)
RECURSIVE StrLen(_)
StrLen(s) ==
    IF s = <<>> THEN 0
    ELSE IF Len(s) = 1 THEN s[1][2]
    ELSE StrLen(SubSeq(s, 1, Len(s) \div 2))
           + StrLen(SubSeq(s, Len(s) \div 2 + 1, Len(s)))

\* s + t
StrCat(s, t) ==
    IF s = <<>> THEN t
    ELSE IF t = <<>> THEN s
    ELSE IF s[Len(s)][1] = t[1][1]
         THEN SubSeq(s, 1, Len(s) - 1)
                \o << <<t[1][1], s[Len(s)][2] + t[1][2]>> >>
                \o Tail(t)
         ELSE s \o t

\* strip that strips nothing.
StrStrip_Identity(s) == s

\* s.strip()
StrStrip(s) ==
    LET keep == {i \in 1..Len(s) : s[i][1] \notin Whitespace}
    IN  IF keep = {} THEN <<>> ELSE SubSeq(s, SetMin(keep), SetMax(keep))

\* s[:k]
RECURSIVE StrTake(_, _)
StrTake(s, k) ==
    IF s = <<>> \/ k <= 0 THEN <<>>
    ELSE IF s[1][2] >= k THEN << <<s[1][1], k>> >>
    ELSE <<s[1]>> \o StrTake(Tail(s), k - s[1][2])

\* s.replace(old, new) for single characters old and new
RECURSIVE StrReplaceChar(_, _, _)
StrReplaceChar(s, old, new) ==
    IF s = <<>> THEN <<>>
    ELSE StrCat(<< <<IF s[1][1] = old THEN new ELSE s[1][1], s[1][2]>> >>,
                StrReplaceChar(Tail(s), old, new))

\* str(n) for a natural number n
Digit(d) == CASE d = 0 -> "0" [] d = 1 -> "1" [] d = 2 -> "2" [] d = 3 -> "3"
              [] d = 4 -> "4" [] d = 5 -> "5" [] d = 6 -> "6" [] d = 7 -> "7"
              [] d = 8 -> "8" [] d = 9 -> "9"
RECURSIVE DecimalStr(_)
DecimalStr(n) ==
    IF n < 10 THEN << <<Digit(n), 1>> >>
    ELSE StrCat(DecimalStr(n \div 10), << <<Digit(n % 10), 1>> >>)

\* The last run of the maximal block of whitespace runs that starts at run a.
WsBlockEnd(s, a) ==
    CHOOSE b \in a..Len(s) :
        /\ \A k \in a..b : s[k][1] \in Whitespace
        /\ b = Len(s) \/ s[b + 1][1] \notin Whitespace

\* The runs at which a maximal block of whitespace starts.
WsBlockStarts(s) ==
    {a \in 1..Len(s) : /\ s[a][1] \in Whitespace
                       /\ a = 1 \/ s[a - 1][1] \notin Whitespace}

\* The k-th smallest element of a finite set of integers.
Nth(S, k) == CHOOSE x \in S : Cardinality({y \in S : y < x}) = k - 1

\* re.split(r'\n\s*\n', s): a match starts at the first newline of a
\* whitespace block holding at least two newlines and, \s* being greedy, ends
\* at the last newline of that block; what is left of the block has no
\* newline, so every such block gives exactly one match.
SplitParagraphs(s) ==
    LET nl(a) == {k \in a..WsBlockEnd(s, a) : s[k][1] = "\n"}
        seps == {a \in WsBlockStarts(s) :
                    \/ Cardinality(nl(a)) >= 2
                    \/ \E k \in nl(a) : s[k][2] >= 2}
        n == Cardinality(seps)
        from(j) == IF j = 1 THEN 1 ELSE SetMax(nl(Nth(seps, j - 1))) + 1
        to(j) == IF j = n + 1 THEN Len(s) ELSE SetMin(nl(Nth(seps, j))) - 1
    IN  [j \in 1..(n + 1) |-> SubSeq(s, from(j), to(j))]

\* re.split(r'(?<=[.!?])\s+', s): a match is a whole whitespace block that
\* directly follows a sentence terminator.
SplitSentences(s) ==
    LET seps == {a \in WsBlockStarts(s) : a > 1 /\ s[a - 1][1] \in Terminators}
        n == Cardinality(seps)
        from(j) == IF j = 1 THEN 1 ELSE WsBlockEnd(s, Nth(seps, j - 1)) + 1
        to(j) == IF j = n + 1 THEN Len(s) ELSE Nth(seps, j) - 1
    IN  [j \in 1..(n + 1) |-> SubSeq(s, from(j), to(j))]

SP == << <<" ", 1>> >>
NLNL == << <<"\n", 2>> >>
US == << <<"_", 1>> >>

\* ------------------------------------------------------------------------
\* chunk_text
\* ------------------------------------------------------------------------
\* The accumulator of chunk_text: the chunks emitted so far and current_chunk.

\* AddSentence that joins every sentence to the current chunk.
AddSentence_AlwaysJoins(acc, sentence) ==
    [acc EXCEPT !.current_chunk =
         StrStrip(StrCat(StrCat(acc.current_chunk, SP), sentence))]

\* One sentence of a paragraph longer than CHUNK_SIZE_CHARS.
AddSentence(acc, sentence) ==
    IF StrLen(acc.current_chunk) + StrLen(sentence) + 2 <= CHUNK_SIZE_CHARS
    THEN [acc EXCEPT !.current_chunk =
              StrStrip(StrCat(StrCat(acc.current_chunk, SP), sentence))]
    ELSE [chunks |-> IF acc.current_chunk # <<>>
                     THEN Append(acc.chunks, acc.current_chunk)
                     ELSE acc.chunks,
          current_chunk |-> sentence]

\* for sentence in sentences.  The loop is folded by halves, and the test on
\* half makes TLC evaluate the first half before it descends into the second.
RECURSIVE AddSentences(_, _)
AddSentences(acc, sentences) ==
    IF sentences = <<>> THEN acc
    ELSE IF Len(sentences) = 1 THEN AddSentence(acc, sentences[1])
    ELSE LET half == AddSentences(acc, SubSeq(sentences, 1, Len(sentences) \div 2))
         IN  IF half = half
             THEN AddSentences(half, SubSeq(sentences, Len(sentences) \div 2 + 1,
                                        Len(sentences)))
             ELSE half

\* AddParagraph that joins every paragraph to the current chunk.
AddParagraph_AlwaysJoins(acc, rawPara) ==
    LET para == StrStrip(rawPara)
    IN  IF para = <<>> THEN acc
        ELSE [acc EXCEPT !.current_chunk =
                  StrStrip(StrCat(StrCat(acc.current_chunk, NLNL), para))]

\* AddParagraph that starts the next chunk without keeping the full one.
AddParagraph_DropsFull(acc, rawPara) ==
    LET para == StrStrip(rawPara)
    IN  IF para = <<>> THEN acc
        ELSE IF StrLen(para) > CHUNK_SIZE_CHARS
        THEN AddSentences(acc, SplitSentences(para))
        ELSE IF StrLen(acc.current_chunk) + StrLen(para) + 2 <= CHUNK_SIZE_CHARS
        THEN [acc EXCEPT !.current_chunk =
                  StrStrip(StrCat(StrCat(acc.current_chunk, NLNL), para))]
        ELSE [chunks |-> acc.chunks, current_chunk |-> para]

\* One iteration of the loop over the paragraphs.
AddParagraph(acc, rawPara) ==
    LET para == StrStrip(rawPara)
    IN  IF para = <<>> THEN acc
        ELSE IF StrLen(para) > CHUNK_SIZE_CHARS
        THEN AddSentences(acc, SplitSentences(para))
        ELSE IF StrLen(acc.current_chunk) + StrLen(para) + 2 <= CHUNK_SIZE_CHARS
        THEN [acc EXCEPT !.current_chunk =
                  StrStrip(StrCat(StrCat(acc.current_chunk, NLNL), para))]
        ELSE [chunks |-> IF acc.current_chunk # <<>>
                         THEN Append(acc.chunks, acc.current_chunk)
                         ELSE acc.chunks,
              current_chunk |-> para]

\* for para in paragraphs, folded as AddSentences is.
RECURSIVE AddParagraphs(_, _)
AddParagraphs(acc, paragraphs) ==
    IF paragraphs = <<>> THEN acc
    ELSE IF Len(paragraphs) = 1 THEN AddParagraph(acc, paragraphs[1])
    ELSE LET half == AddParagraphs(acc, SubSeq(paragraphs, 1, Len(paragraphs) \div 2))
         IN  IF half = half
             THEN AddParagraphs(half, SubSeq(paragraphs, Len(paragraphs) \div 2 + 1,
                                        Len(paragraphs)))
             ELSE half

\* chunk_text without the filter of line 184.
chunk_text_NoFilter(text) ==
    LET acc == AddParagraphs([chunks |-> <<>>, current_chunk |-> <<>>],
                             SplitParagraphs(text))
    IN  IF acc.current_chunk # <<>>
        THEN Append(acc.chunks, acc.current_chunk)
        ELSE acc.chunks

chunk_text(text) ==
    LET acc == AddParagraphs([chunks |-> <<>>, current_chunk |-> <<>>],
                             SplitParagraphs(text))
        chunks == IF acc.current_chunk # <<>>
                  THEN Append(acc.chunks, acc.current_chunk)
                  ELSE acc.chunks
    IN  SelectSeq(chunks, LAMBDA c : StrLen(c) >= MIN_CHUNK_CHARS)

\* Lines 156-182: the list chunks as it is when line 184 filters it.
chunks_before_filter(text) ==
    LET acc == AddParagraphs([chunks |-> <<>>, current_chunk |-> <<>>],
                             SplitParagraphs(text))
    IN  IF acc.current_chunk # <<>>
        THEN Append(acc.chunks, acc.current_chunk)
        ELSE acc.chunks

\* ------------------------------------------------------------------------
\* Identity
\* ------------------------------------------------------------------------
\* hashlib.md5(...).hexdigest(): the digest is taken to be collision-free and
\* is represented by the string it digests.
Md5(s) == [md5 |-> s]

\* compute_file_hash: the digest of the whole file content.
compute_file_hash(content) == Md5(content)

\* generate_id that digests the whole text, not its first 50 characters.
generate_id_WholeText(filename, chunk_index, text) ==
    [md5_16 |-> StrCat(StrCat(StrCat(StrCat(filename, US),
                                     DecimalStr(chunk_index)), US),
                       text)]

\* generate_id: the first 16 hex characters of the digest of
\* "<filename>_<chunk_index>_<first 50 characters of text>".
generate_id(filename, chunk_index, text) ==
    [md5_16 |-> StrCat(StrCat(StrCat(StrCat(filename, US),
                                     DecimalStr(chunk_index)), US),
                       StrTake(text, ID_PREFIX_CHARS))]

\* Line 208: hexdigest() of an MD5 digest has 32 hexadecimal characters, of
\* which [:16] keeps the first 16.  The characters themselves are not
\* modelled, their number is.
HEX_DIGEST_CHARS == 32
ID_HEX_CHARS == 16

\* len(hexdigest()[:16])
id_length(id) ==
    IF ID_HEX_CHARS < HEX_DIGEST_CHARS THEN ID_HEX_CHARS ELSE HEX_DIGEST_CHARS

\* ------------------------------------------------------------------------
\* categorize_document
\* ------------------------------------------------------------------------
\* Characters outside ASCII are written by their code point: "u0437" is the
\* Cyrillic small letter ze.
LatinUpper == <<"A", "B", "C", "D", "E", "F", "G", "H", "I", "J", "K", "L", "M",
                "N", "O", "P", "Q", "R", "S", "T", "U", "V", "W", "X", "Y", "Z">>
LatinLower == <<"a", "b", "c", "d", "e", "f", "g", "h", "i", "j", "k", "l", "m",
                "n", "o", "p", "q", "r", "s", "t", "u", "v", "w", "x", "y", "z">>
CyrUpper == <<"u0410", "u0412", "u0413", "u0414", "u0417", "u041a", "u041b",
              "u041d", "u041e", "u0420", "u0406">>
CyrLower == <<"u0430", "u0432", "u0433", "u0434", "u0437", "u043a", "u043b",
              "u043d", "u043e", "u0440", "u0456">>

\* str.lower() of one character
LowerChar(c) ==
    IF \E i \in 1..Len(LatinUpper) : LatinUpper[i] = c
    THEN LatinLower[CHOOSE i \in 1..Len(LatinUpper) : LatinUpper[i] = c]
    ELSE IF \E i \in 1..Len(CyrUpper) : CyrUpper[i] = c
    THEN CyrLower[CHOOSE i \in 1..Len(CyrUpper) : CyrUpper[i] = c]
    ELSE c

\* The characters of a string, one by one.
RECURSIVE StrChars(_)
StrChars(s) ==
    IF s = <<>> THEN <<>>
    ELSE [i \in 1..s[1][2] |-> s[1][1]] \o StrChars(Tail(s))

\* filename.lower(), character by character
LowerChars(s) == [i \in 1..Len(StrChars(s)) |-> LowerChar(StrChars(s)[i])]

\* keyword in name
Contains(name, keyword) ==
    \E i \in 1..(Len(name) - Len(keyword) + 1) :
        SubSeq(name, i, i + Len(keyword) - 1) = keyword

KwZakon == <<"u0437", "u0430", "u043a", "u043e", "u043d">>
KwGem == <<"g", "e", "m">>
KwExpert == <<"e", "x", "p", "e", "r", "t">>
KwArticle == <<"a", "r", "t", "i", "c", "l", "e">>
KwAnaliz == <<"u0430", "u043d", "u0430", "u043b", "u0456", "u0437">>
KwDogovir == <<"u0434", "u043e", "u0433", "u043e", "u0432", "u0456", "u0440">>
KwDogovor == <<"u0434", "u043e", "u0433", "u043e", "u0432", "u043e", "u0440">>
KwNda == <<"n", "d", "a">>

\* categorize_document with the analysis rule ahead of the research rule.
categorize_document_AnalysisFirst(filename) ==
    LET name == LowerChars(filename)
    IN  IF Contains(name, KwZakon) THEN "legislation"
        ELSE IF Contains(name, KwAnaliz) THEN "analysis"
        ELSE IF Contains(name, KwGem) THEN "research"
        ELSE IF Contains(name, KwExpert) \/ Contains(name, KwArticle)
        THEN "article"
        ELSE IF Contains(name, KwDogovir) \/ Contains(name, KwDogovor)
                \/ Contains(name, KwNda)
        THEN "contract"
        ELSE "other"

categorize_document(filename) ==
    LET name == LowerChars(filename)
    IN  IF Contains(name, KwZakon) THEN "legislation"
        ELSE IF Contains(name, KwGem) THEN "research"
        ELSE IF Contains(name, KwExpert) \/ Contains(name, KwArticle)
        THEN "article"
        ELSE IF Contains(name, KwAnaliz) THEN "analysis"
        ELSE IF Contains(name, KwDogovir) \/ Contains(name, KwDogovor)
                \/ Contains(name, KwNda)
        THEN "contract"
        ELSE "other"

\* ------------------------------------------------------------------------
\* process_file, save_chunks_to_staging, move_chunks_to_archive
\* ------------------------------------------------------------------------
\* process_file that numbers the chunks from 1.
process_file_OneBased(filename, text) ==
    LET chunks == chunk_text(text)
        doc_type == categorize_document(filename)
        records == [i \in 1..Len(chunks) |->
                       [_id |-> generate_id(filename, i, chunks[i]),
                        text |-> chunks[i],
                        filename |-> filename,
                        chunk_index |-> i,
                        total_chunks |-> Len(chunks),
                        doc_type |-> doc_type]]
    IN  [records |-> records,
         chunk_ids |-> [i \in 1..Len(chunks) |-> records[i]._id]]

\* process_file: the records and the chunk ids of one document.
process_file(filename, text) ==
    LET chunks == chunk_text(text)
        doc_type == categorize_document(filename)
        records == [i \in 1..Len(chunks) |->
                       [_id |-> generate_id(filename, i - 1, chunks[i]),
                        text |-> chunks[i],
                        filename |-> filename,
                        chunk_index |-> i - 1,
                        total_chunks |-> Len(chunks),
                        doc_type |-> doc_type]]
    IN  [records |-> records,
         chunk_ids |-> [i \in 1..Len(chunks) |-> records[i]._id]]

\* sorted(records, key=lambda x: x["chunk_index"]): the sort is stable.
RECURSIVE SortByChunkIndex(_)
SortByChunkIndex(records) ==
    IF records = <<>> THEN <<>>
    ELSE LET least == SetMin({i \in 1..Len(records) :
                                \A j \in 1..Len(records) :
                                    records[i].chunk_index
                                        <= records[j].chunk_index})
         IN  <<records[least]>>
               \o SortByChunkIndex([i \in 1..(Len(records) - 1) |->
                                      IF i < least THEN records[i]
                                      ELSE records[i + 1]])

\* filename.replace("/", "_").replace("\\", "_")
safe_filename(filename) ==
    StrReplaceChar(StrReplaceChar(filename, "/", "_"), "\\", "_")

\* The artifact that save_chunks_to_staging writes.
StagingArtifact(records, filename, now) ==
    [filename |-> filename,
     doc_type |-> IF records # <<>> THEN records[1].doc_type ELSE "unknown",
     total_chunks |-> Len(records),
     created_at |-> now,
     status |-> "staging",
     archived_at |-> 0,
     chunks |-> LET sorted == SortByChunkIndex(records)
                IN  [i \in 1..Len(sorted) |->
                        [id |-> sorted[i]._id,
                         chunk_index |-> sorted[i].chunk_index,
                         text |-> sorted[i].text]]]

\* The artifact that move_chunks_to_archive writes.
ArchivedArtifact(data, now) ==
    [data EXCEPT !.status = "archived", !.archived_at = now]

\* ------------------------------------------------------------------------
\* The documents and contents of the model
\* ------------------------------------------------------------------------
\* Bound: the number of runs of main.
MaxRuns == 3

FileA == << <<"a", 1>>, <<".", 1>>, <<"m", 1>>, <<"d", 1>> >>
FileB == << <<"b", 1>>, <<".", 1>>, <<"m", 1>>, <<"d", 1>> >>

\* one chunk
TextOne == << <<"x", 100>> >>
\* two chunks: the second paragraph does not fit into the first chunk; the
\* first chunk starts with the same 50 characters as the chunk of TextOne
TextTwo == << <<"x", 1000>>, <<"\n", 2>>, <<"y", 1001>> >>

\* What the user may put into the source directory.
Placeable ==
    ({FileA} \X {TextOne, TextTwo}) \cup ({FileB} \X {TextTwo})

None == 0

\* ------------------------------------------------------------------------
\* Directories and dicts
\* ------------------------------------------------------------------------
Put(dir, name, content) == (name :> content) @@ dir
Remove(dir, name) == [n \in DOMAIN dir \ {name} |-> dir[n]]

\* The sequences that list every element of S once.
Orders(S) ==
    {o \in [1..Cardinality(S) -> S] : \A i, j \in DOMAIN o : o[i] = o[j] => i = j}

\* Path.glob("*.md")
IsMd(name) ==
    LET c == StrChars(name)
    IN  Len(c) >= 3 /\ SubSeq(c, Len(c) - 2, Len(c)) = <<".", "m", "d">>

DesktopIni == << <<"d", 1>>, <<"e", 1>>, <<"s", 1>>, <<"k", 1>>, <<"t", 1>>,
                 <<"o", 1>>, <<"p", 1>>, <<".", 1>>, <<"i", 1>>, <<"n", 1>>,
                 <<"i", 1>> >>

\* ------------------------------------------------------------------------
\* State
\* ------------------------------------------------------------------------
VARIABLES
    source_docs,            \* SOURCE_DIR: filename -> content
    chunks_dir,             \* CHUNKS_DIR (staging): artifact name -> artifact
    archived_chunks,        \* ARCHIVED_CHUNKS_DIR: artifact name -> artifact
    archived_source_docs,   \* ARCHIVED_SOURCE_DIR: filename -> content
    tracking_file,          \* TRACKING_FILE: <<>> if absent, else <<content>>
    index,                  \* the ids of the records in the external index
    pc,                     \* where main is
    clock,                  \* datetime.now(), one tick per run
    logger,                 \* the Logger of the run: its report, what it saved
    tracking,               \* main: tracking
    files,                  \* main: files
    changes,                \* main: changes
    all_records,            \* main: all_records
    staging_files,          \* main: staging_files, in insertion order
    files_tracking,         \* main: files_tracking
    i,                      \* main: the position of the running loop
    upload_errors,          \* main: upload_errors, the failed batch numbers
    uploaded_count,         \* main: uploaded_count
    calls,                  \* the calls of the run to the index and the
                            \* writes of the tracking file, in order
    confirmed,              \* <<filename, content hash, id>> of every record
                            \* in an upsert the collaborator confirmed
    ingested,               \* filename -> the content hash and chunk ids of
                            \* its last ingestion, if the run of that
                            \* ingestion had no failed batch
    pre,                    \* the directories, tracking file and index as
                            \* they were when the run started
    id_calls                \* the calls of generate_id made apart from a
                            \* run: their arguments and the ids returned

persistent == <<source_docs, chunks_dir, archived_chunks, archived_source_docs,
                tracking_file, index>>
locals == <<tracking, files, changes, all_records, staging_files,
            files_tracking, i, upload_errors, uploaded_count>>
vars == <<persistent, pc, clock, logger, locals, calls, confirmed,
          ingested, pre, id_calls>>

Snapshot ==
    [source_docs |-> source_docs, chunks_dir |-> chunks_dir,
     archived_chunks |-> archived_chunks,
     archived_source_docs |-> archived_source_docs,
     tracking_file |-> tracking_file, index |-> index]

\* Logger.__init__
NewLogger ==
    [report |-> [status |-> "started", files_processed |-> <<>>,
                 chunks_created |-> 0, chunks_uploaded |-> 0,
                 orphans_deleted |-> 0, errors |-> <<>>, warnings |-> <<>>],
     saved |-> <<>>]

\* Logger.error
LogError(lg, message) ==
    [lg EXCEPT !.report.errors = Append(@, message)]

\* Logger.warning
LogWarning(lg, message) ==
    [lg EXCEPT !.report.warnings = Append(@, message)]

\* Logger.save: the report file holds the report as it is now.
LogSave(lg) == [lg EXCEPT !.saved = <<lg.report>>]

\* load_tracking
EmptyTracking == [last_updated |-> None, files |-> <<>>]
load_tracking == IF tracking_file # <<>> THEN tracking_file[1] ELSE EmptyTracking

NoChanges == [new_files |-> <<>>, changed_files |-> <<>>,
              unchanged_files |-> <<>>, orphan_chunk_ids |-> <<>>]

\* No call of generate_id apart from the runs.
NoIdCalls == [args |-> <<>>, ids |-> <<>>]

\* A fresh installation: empty directories, no tracking file, an empty
\* index, no run of main under way.
FreshInstallation ==
    /\ source_docs = <<>>
    /\ chunks_dir = <<>>
    /\ archived_chunks = <<>>
    /\ archived_source_docs = <<>>
    /\ tracking_file = <<>>
    /\ index = {}
    /\ pc = "idle"
    /\ clock = 0
    /\ logger = NewLogger
    /\ tracking = EmptyTracking
    /\ files = <<>>
    /\ changes = NoChanges
    /\ all_records = <<>>
    /\ staging_files = <<>>
    /\ files_tracking = <<>>
    /\ i = 0
    /\ upload_errors = <<>>
    /\ uploaded_count = 0
    /\ calls = <<>>
    /\ confirmed = {}
    /\ ingested = <<>>
    /\ pre = Snapshot

Init ==
    /\ FreshInstallation
    /\ id_calls = NoIdCalls

\* ------------------------------------------------------------------------
\* analyze_changes
\* ------------------------------------------------------------------------
\* AnalyzeFile with the test on the stored hash turned around.
AnalyzeFile_HashTestFlipped(acc, filename, tracked_files) ==
    LET current_hash == compute_file_hash(source_docs[filename])
    IN  IF filename \notin DOMAIN tracked_files
        THEN [acc EXCEPT !.new_files = Append(@, filename)]
        ELSE IF tracked_files[filename].content_hash = current_hash
        THEN [acc EXCEPT !.changed_files = Append(@, filename),
                         !.orphan_chunk_ids =
                             @ \o tracked_files[filename].chunk_ids]
        ELSE [acc EXCEPT !.unchanged_files = Append(@, filename)]

\* AnalyzeFile that collects the old chunk ids of every tracked file.
AnalyzeFile_OrphansOfAllTracked(acc, filename, tracked_files) ==
    LET current_hash == compute_file_hash(source_docs[filename])
    IN  IF filename \notin DOMAIN tracked_files
        THEN [acc EXCEPT !.new_files = Append(@, filename)]
        ELSE IF tracked_files[filename].content_hash # current_hash
        THEN [acc EXCEPT !.changed_files = Append(@, filename),
                         !.orphan_chunk_ids =
                             @ \o tracked_files[filename].chunk_ids]
        ELSE [acc EXCEPT !.unchanged_files = Append(@, filename),
                         !.orphan_chunk_ids =
                             @ \o tracked_files[filename].chunk_ids]

\* One iteration of the loop over files.
AnalyzeFile(acc, filename, tracked_files) ==
    LET current_hash == compute_file_hash(source_docs[filename])
    IN  IF filename \notin DOMAIN tracked_files
        THEN [acc EXCEPT !.new_files = Append(@, filename)]
        ELSE IF tracked_files[filename].content_hash # current_hash
        THEN [acc EXCEPT !.changed_files = Append(@, filename),
                         !.orphan_chunk_ids =
                             @ \o tracked_files[filename].chunk_ids]
        ELSE [acc EXCEPT !.unchanged_files = Append(@, filename)]

RECURSIVE AnalyzeFiles(_, _, _)
AnalyzeFiles(acc, fs, tracked_files) ==
    IF fs = <<>> THEN acc
    ELSE AnalyzeFiles(AnalyzeFile(acc, Head(fs), tracked_files), Tail(fs),
                      tracked_files)

analyze_changes(fs, trk) == AnalyzeFiles(NoChanges, fs, trk.files)

\* files_to_process that takes every file found.
files_to_process_AllFiles == files

\* Line 431.
files_to_process == changes.new_files \o changes.changed_files

\* ------------------------------------------------------------------------
\* The user, between runs
\* ------------------------------------------------------------------------
\* A document is put into the source directory; documents leave it only by
\* being archived.
PlaceFile(name, content) ==
    /\ pc = "idle"
    /\ name \notin DOMAIN source_docs
    /\ source_docs' = Put(source_docs, name, content)
    /\ UNCHANGED <<chunks_dir, archived_chunks, archived_source_docs,
                   tracking_file, index, pc, clock, logger, locals,
                   calls, confirmed, ingested, pre,
                   id_calls>>

\* ------------------------------------------------------------------------
\* main
\* ------------------------------------------------------------------------
\* The run ends by a return of main.
Return(lg) ==
    /\ logger' = lg
    /\ pc' = "ended"

\* Lines 365-386: the logger, the API key, load_tracking.
StartRun(api_key) ==
    /\ pc = "idle"
    /\ clock < MaxRuns
    /\ clock' = clock + 1
    /\ pre' = Snapshot
    /\ calls' = <<>>
    /\ IF ~api_key
       THEN /\ Return(LogSave([LogError(NewLogger, "no_api_key")
                                  EXCEPT !.report.status = "failed"]))
            /\ UNCHANGED tracking
       ELSE /\ logger' = NewLogger
            /\ tracking' = load_tracking
            /\ pc' = "connect"
    /\ UNCHANGED <<persistent, files, changes, all_records, staging_files,
                   files_tracking, i, upload_errors, uploaded_count,
                   confirmed, ingested,
                   id_calls>>

\* Connect without the return of line 403: the failure is reported and the
\* run goes on.
Connect_GoOn(ok) ==
    /\ pc = "connect"
    /\ pc' = "find_files"
    /\ logger' = IF ok THEN logger
                 ELSE LogSave([LogError(logger, "connect_failed")
                                  EXCEPT !.report.status = "failed"])
    /\ UNCHANGED <<persistent, clock, locals, calls, confirmed, ingested, pre,
                   id_calls>>

\* Lines 388-403: the connection to the index.
Connect(ok) ==
    /\ pc = "connect"
    /\ IF ok
       THEN /\ pc' = "find_files"
            /\ UNCHANGED logger
       ELSE Return(LogSave([LogError(logger, "connect_failed")
                               EXCEPT !.report.status = "failed"]))
    /\ UNCHANGED <<persistent, clock, locals, calls, confirmed, ingested, pre,
                   id_calls>>

\* Lines 405-417: the *.md files of the source directory, in the order the
\* directory listing gives them.
FindFiles(order) ==
    /\ pc = "find_files"
    /\ order \in Orders({n \in DOMAIN source_docs : IsMd(n) /\ n # DesktopIni})
    /\ files' = order
    /\ IF order = <<>>
       THEN Return(LogSave([logger EXCEPT !.report.status = "completed"]))
       ELSE /\ pc' = "analyze"
            /\ UNCHANGED logger
    /\ UNCHANGED <<persistent, clock, tracking, changes, all_records,
                   staging_files, files_tracking, i, upload_errors,
                   uploaded_count, calls, confirmed, ingested, pre,
                   id_calls>>

\* Lines 419-440: analyze_changes and the return when nothing is to be done.
AnalyzeChanges ==
    /\ pc = "analyze"
    /\ LET ch == analyze_changes(files, tracking)
           lg == IF ch.orphan_chunk_ids # <<>>
                 THEN LogWarning(logger, "orphans")
                 ELSE logger
       IN  /\ changes' = ch
           /\ IF ch.new_files \o ch.changed_files = <<>>
              THEN Return(LogSave([lg EXCEPT !.report.status = "completed"]))
              ELSE /\ logger' = lg
                   /\ pc' = IF ch.orphan_chunk_ids # <<>>
                            THEN "delete_orphans" ELSE "chunking"
    /\ i' = 0
    /\ UNCHANGED <<persistent, clock, tracking, files, all_records,
                   staging_files, files_tracking, upload_errors,
                   uploaded_count, calls, confirmed, ingested, pre,
                   id_calls>>

\* seq[a:b] of Python, on 0-based positions.
Slice(seq, a, b) ==
    SubSeq(seq, a + 1, IF b < Len(seq) THEN b ELSE Len(seq))

Range(seq) == {seq[k] : k \in DOMAIN seq}

\* DeleteOrphans that goes on to the chunking without a call of delete.
DeleteOrphans_NoCall ==
    /\ pc = "delete_orphans"
    /\ pc' = "chunking"
    /\ i' = 0
    /\ UNCHANGED <<persistent, clock, logger, tracking, files, changes,
                   all_records, staging_files, files_tracking, upload_errors,
                   uploaded_count, calls, confirmed, ingested, pre,
                   id_calls>>

\* Lines 443-446 and delete_orphan_chunks: one batch of the delete loop.
DeleteOrphans ==
    /\ pc = "delete_orphans"
    /\ LET batch == Slice(changes.orphan_chunk_ids, i, i + DELETE_BATCH_SIZE)
       IN  /\ index' = index \ Range(batch)
           /\ calls' = Append(calls, [op |-> "delete", ids |-> batch,
                                      ok |-> TRUE])
    /\ IF i + DELETE_BATCH_SIZE < Len(changes.orphan_chunk_ids)
       THEN /\ i' = i + DELETE_BATCH_SIZE
            /\ UNCHANGED <<pc, logger>>
       ELSE /\ i' = 0
            /\ pc' = "chunking"
            /\ logger' = [logger EXCEPT !.report.orphans_deleted =
                                            Len(changes.orphan_chunk_ids)]
    /\ UNCHANGED <<source_docs, chunks_dir, archived_chunks,
                   archived_source_docs, tracking_file, clock, tracking,
                   files, changes, all_records, staging_files, files_tracking,
                   upload_errors, uploaded_count, confirmed, ingested, pre,
                   id_calls>>

\* Lines 454-477: one iteration of the chunking loop: process_file,
\* save_chunks_to_staging, the entries of staging_files and files_tracking.
ChunkFile ==
    /\ pc = "chunking"
    /\ LET filename == files_to_process[i + 1]
           processed == process_file(filename, source_docs[filename])
           staging_path == safe_filename(filename)
       IN  /\ all_records' = all_records \o processed.records
           /\ chunks_dir' = Put(chunks_dir, staging_path,
                                StagingArtifact(processed.records, filename,
                                                clock))
           /\ staging_files' =
                  Append(staging_files,
                         [filename |-> filename,
                          source_path |-> filename,
                          staging_path |-> staging_path,
                          records |-> processed.records,
                          chunk_ids |-> processed.chunk_ids])
           /\ files_tracking' =
                  Put(files_tracking, filename,
                      [content_hash |->
                           compute_file_hash(source_docs[filename]),
                       chunk_ids |-> processed.chunk_ids,
                       chunks_count |-> Len(processed.chunk_ids),
                       uploaded_at |-> None,
                       source |-> "none"])
           /\ logger' = [logger EXCEPT !.report.chunks_created =
                                           @ + Len(processed.records)]
    /\ IF i + 1 < Len(files_to_process)
       THEN /\ i' = i + 1
            /\ UNCHANGED pc
       ELSE /\ i' = 0
            /\ pc' = "upload"
    /\ UNCHANGED <<source_docs, archived_chunks, archived_source_docs,
                   tracking_file, index, clock, tracking, files,
                   changes, upload_errors, uploaded_count, calls, confirmed,
                   ingested, pre,
                   id_calls>>

\* UploadBatch that leaves the loop at the first batch that raises.
UploadBatch_StopOnFailure(ok) ==
    /\ pc = "upload"
    /\ i < Len(all_records)
    /\ LET batch == Slice(all_records, i, i + UPSERT_BATCH_SIZE)
           batch_num == i \div UPSERT_BATCH_SIZE + 1
           ids == [k \in DOMAIN batch |-> batch[k]._id]
       IN  /\ calls' = Append(calls, [op |-> "upsert", ids |-> ids, ok |-> ok])
           /\ IF ok
              THEN /\ index' = index \cup Range(ids)
                   /\ uploaded_count' = uploaded_count + Len(batch)
                   /\ confirmed' = confirmed \cup
                          {<<batch[k].filename,
                             files_tracking[batch[k].filename].content_hash,
                             batch[k]._id>> : k \in DOMAIN batch}
                   /\ i' = i + UPSERT_BATCH_SIZE
                   /\ UNCHANGED <<logger, upload_errors>>
              ELSE /\ logger' = LogError(logger, <<"batch_failed", batch_num>>)
                   /\ upload_errors' = Append(upload_errors, batch_num)
                   /\ i' = Len(all_records)
                   /\ UNCHANGED <<index, uploaded_count, confirmed>>
    /\ UNCHANGED <<source_docs, chunks_dir, archived_chunks,
                   archived_source_docs, tracking_file, pc, clock,
                   tracking, files, changes, all_records, staging_files,
                   files_tracking, ingested, pre,
                   id_calls>>

\* Lines 487-499: one batch of the upload loop; the collaborator confirms
\* the batch or raises.
UploadBatch(ok) ==
    /\ pc = "upload"
    /\ i < Len(all_records)
    /\ LET batch == Slice(all_records, i, i + UPSERT_BATCH_SIZE)
           batch_num == i \div UPSERT_BATCH_SIZE + 1
           ids == [k \in DOMAIN batch |-> batch[k]._id]
       IN  /\ calls' = Append(calls, [op |-> "upsert", ids |-> ids, ok |-> ok])
           /\ IF ok
              THEN /\ index' = index \cup Range(ids)
                   /\ uploaded_count' = uploaded_count + Len(batch)
                   /\ confirmed' = confirmed \cup
                          {<<batch[k].filename,
                             files_tracking[batch[k].filename].content_hash,
                             batch[k]._id>> : k \in DOMAIN batch}
                   /\ UNCHANGED <<logger, upload_errors>>
              ELSE /\ logger' = LogError(logger, <<"batch_failed", batch_num>>)
                   /\ upload_errors' = Append(upload_errors, batch_num)
                   /\ UNCHANGED <<index, uploaded_count, confirmed>>
    /\ i' = i + UPSERT_BATCH_SIZE
    /\ UNCHANGED <<source_docs, chunks_dir, archived_chunks,
                   archived_source_docs, tracking_file, pc, clock,
                   tracking, files, changes, all_records, staging_files,
                   files_tracking, ingested, pre,
                   id_calls>>

\* UploadDone that returns when there was no record to upload.
UploadDone_ReturnIfNothing ==
    /\ pc = "upload"
    /\ i >= Len(all_records)
    /\ LET lg == [logger EXCEPT !.report.chunks_uploaded = uploaded_count]
       IN  IF all_records = <<>>
           THEN Return(LogSave([lg EXCEPT !.report.status = "completed"]))
           ELSE /\ logger' = IF upload_errors # <<>>
                             THEN [LogError(lg, "upload_errors")
                                      EXCEPT !.report.status = "partial"]
                             ELSE lg
                /\ pc' = "verify"
    /\ UNCHANGED <<persistent, clock, locals, calls, confirmed, ingested,
                   pre, id_calls>>

\* Lines 501-507: after the upload loop.
UploadDone ==
    /\ pc = "upload"
    /\ i >= Len(all_records)
    /\ logger' =
          LET lg == [logger EXCEPT !.report.chunks_uploaded = uploaded_count]
          IN  IF upload_errors # <<>>
              THEN [LogError(lg, "upload_errors")
                       EXCEPT !.report.status = "partial"]
              ELSE lg
    /\ pc' = "verify"
    /\ UNCHANGED <<persistent, clock, locals, calls, confirmed, ingested,
                   pre,
                   id_calls>>

\* VerifyUpload that goes on to the tracking update, past the archive loop.
VerifyUpload_SkipArchive ==
    /\ pc = "verify"
    /\ pc' = "update_tracking"
    /\ i' = 0
    /\ UNCHANGED <<persistent, clock, logger, tracking, files, changes,
                   all_records, staging_files, files_tracking, upload_errors,
                   uploaded_count, calls, confirmed, ingested, pre,
                   id_calls>>

\* Lines 509-514 and verify_upload, which reads the statistics of the index
\* and returns True.
VerifyUpload ==
    /\ pc = "verify"
    /\ pc' = "archive"
    /\ i' = 0
    /\ UNCHANGED <<persistent, clock, logger, tracking, files, changes,
                   all_records, staging_files, files_tracking, upload_errors,
                   uploaded_count, calls, confirmed, ingested, pre,
                   id_calls>>

\* Lines 523 and 273-284: move_chunks_to_archive reads the staging artifact
\* and writes it, with status archived, into the archive.
ArchiveWrite ==
    /\ pc = "archive"
    /\ LET file_data == staging_files[i + 1]
       IN  /\ file_data.staging_path \in DOMAIN chunks_dir
           /\ archived_chunks' =
                  Put(archived_chunks, file_data.staging_path,
                      ArchivedArtifact(chunks_dir[file_data.staging_path],
                                       clock))
    /\ pc' = "archive_unlink"
    /\ UNCHANGED <<source_docs, chunks_dir, archived_source_docs,
                   tracking_file, index, clock, logger, locals, calls,
                   confirmed, ingested, pre,
                   id_calls>>

\* ArchiveUnlink that leaves the artifact in staging.
ArchiveUnlink_Keep ==
    /\ pc = "archive_unlink"
    /\ pc' = "archive_source"
    /\ UNCHANGED <<persistent, clock, logger, locals, calls, confirmed,
                   ingested, pre,
                   id_calls>>

\* Line 287: move_chunks_to_archive removes the artifact from staging.
ArchiveUnlink ==
    /\ pc = "archive_unlink"
    /\ chunks_dir' = Remove(chunks_dir, staging_files[i + 1].staging_path)
    /\ pc' = "archive_source"
    /\ UNCHANGED <<source_docs, archived_chunks, archived_source_docs,
                   tracking_file, index, clock, logger, locals, calls,
                   confirmed, ingested, pre,
                   id_calls>>

\* ArchiveSource that leaves the tracking data of the file as the chunking
\* loop made it.
ArchiveSource_NoTag ==
    /\ pc = "archive_source"
    /\ LET file_data == staging_files[i + 1]
           filename == file_data.filename
       IN  /\ file_data.source_path \in DOMAIN source_docs
           /\ archived_source_docs' =
                  Put(archived_source_docs, file_data.source_path,
                      source_docs[file_data.source_path])
           /\ source_docs' = Remove(source_docs, file_data.source_path)
           /\ files_tracking' = files_tracking
           /\ logger' =
                  [logger EXCEPT !.report.files_processed =
                      Append(@, [filename |-> filename,
                                 chunks_count |-> Len(file_data.chunk_ids),
                                 status |-> "uploaded",
                                 chunk_ids |-> file_data.chunk_ids,
                                 content_hash |->
                                     files_tracking[filename].content_hash])]
    /\ IF i + 1 < Len(staging_files)
       THEN /\ i' = i + 1
            /\ pc' = "archive"
       ELSE /\ i' = 0
            /\ pc' = "update_tracking"
    /\ UNCHANGED <<chunks_dir, archived_chunks, tracking_file, index,
                   clock, tracking, files, changes, all_records,
                   staging_files, upload_errors, uploaded_count, calls,
                   confirmed, ingested, pre,
                   id_calls>>

\* Lines 526-541: move_source_to_archive, then the tracking data and the
\* report of the file.
ArchiveSource ==
    /\ pc = "archive_source"
    /\ LET file_data == staging_files[i + 1]
           filename == file_data.filename
       IN  /\ file_data.source_path \in DOMAIN source_docs
           /\ archived_source_docs' =
                  Put(archived_source_docs, file_data.source_path,
                      source_docs[file_data.source_path])
           /\ source_docs' = Remove(source_docs, file_data.source_path)
           /\ files_tracking' =
                  [files_tracking EXCEPT
                      ![filename].uploaded_at = clock,
                      ![filename].source = "archived_source_docs"]
           /\ logger' =
                  [logger EXCEPT !.report.files_processed =
                      Append(@, [filename |-> filename,
                                 chunks_count |-> Len(file_data.chunk_ids),
                                 status |-> "uploaded",
                                 chunk_ids |-> file_data.chunk_ids,
                                 content_hash |->
                                     files_tracking[filename].content_hash])]
    /\ IF i + 1 < Len(staging_files)
       THEN /\ i' = i + 1
            /\ pc' = "archive"
       ELSE /\ i' = 0
            /\ pc' = "update_tracking"
    /\ UNCHANGED <<chunks_dir, archived_chunks, tracking_file, index,
                   clock, tracking, files, changes, all_records,
                   staging_files, upload_errors, uploaded_count, calls,
                   confirmed, ingested, pre,
                   id_calls>>

\* CarryUnchanged that carries no record over.
CarryUnchanged_Nothing(ft, unchanged, tracked_files) == ft

\* Lines 547-548: the records of the unchanged files are carried over.
CarryUnchanged(ft, unchanged, tracked_files) ==
    [f \in DOMAIN ft \cup Range(unchanged) |->
        IF f \in Range(unchanged) THEN tracked_files[f] ELSE ft[f]]

\* save_tracking
save_tracking(trk, now) == <<[trk EXCEPT !.last_updated = now]>>

\* Lines 543-552: the tracking file is written.
UpdateTracking ==
    /\ pc = "update_tracking"
    /\ files_tracking' =
          CarryUnchanged(files_tracking, changes.unchanged_files,
                         tracking.files)
    /\ tracking' = [last_updated |-> clock, files |-> files_tracking']
    /\ tracking_file' = save_tracking([tracking EXCEPT
                                          !.files = files_tracking'], clock)
    /\ calls' = Append(calls, [op |-> "save_tracking",
                               written |-> tracking_file'[1]])
    /\ ingested' =
          IF upload_errors # <<>>
          THEN [f \in DOMAIN ingested \ DOMAIN files_tracking |-> ingested[f]]
          ELSE [f \in DOMAIN ingested \cup DOMAIN files_tracking |->
                   IF f \in DOMAIN files_tracking
                   THEN [content_hash |-> files_tracking[f].content_hash,
                         chunk_ids |-> files_tracking[f].chunk_ids]
                   ELSE ingested[f]]
    /\ pc' = "final_report"
    /\ UNCHANGED <<source_docs, chunks_dir, archived_chunks,
                   archived_source_docs, index, clock, logger, files,
                   changes, all_records, staging_files, i, upload_errors,
                   uploaded_count, confirmed, pre,
                   id_calls>>

\* Lines 554-585: the final report is saved and main returns.
FinalReport ==
    /\ pc = "final_report"
    /\ Return(LogSave([logger EXCEPT !.report.status =
                          IF upload_errors = <<>> THEN "completed"
                          ELSE "partial"]))
    /\ UNCHANGED <<persistent, clock, locals, calls, confirmed, ingested, pre,
                   id_calls>>

\* The run stops where it is: the process is interrupted, or the call it is
\* making raises (main catches only the exceptions of the first connection
\* and of upsert_records). The process is gone with all that main held;
\* what the run wrote stays.
Abort ==
    /\ pc \notin {"idle", "ended"}
    /\ pc' = "idle"
    /\ logger' = NewLogger
    /\ tracking' = EmptyTracking
    /\ files' = <<>>
    /\ changes' = NoChanges
    /\ all_records' = <<>>
    /\ staging_files' = <<>>
    /\ files_tracking' = <<>>
    /\ i' = 0
    /\ upload_errors' = <<>>
    /\ uploaded_count' = 0
    /\ calls' = <<>>
    /\ pre' = Snapshot
    /\ UNCHANGED <<persistent, clock, confirmed, ingested,
                   id_calls>>

\* The process is gone; nothing of the run is left but what it wrote.
ProcessExit ==
    /\ pc = "ended"
    /\ pc' = "idle"
    /\ logger' = NewLogger
    /\ tracking' = EmptyTracking
    /\ files' = <<>>
    /\ changes' = NoChanges
    /\ all_records' = <<>>
    /\ staging_files' = <<>>
    /\ files_tracking' = <<>>
    /\ i' = 0
    /\ upload_errors' = <<>>
    /\ uploaded_count' = 0
    /\ calls' = <<>>
    /\ pre' = Snapshot
    /\ UNCHANGED <<persistent, clock, confirmed, ingested,
                   id_calls>>

Next ==
    \/ \E doc \in Placeable : PlaceFile(doc[1], doc[2])
    \/ \E api_key \in BOOLEAN : StartRun(api_key)
    \/ \E ok \in BOOLEAN : Connect(ok)
    \/ \E order \in Orders(DOMAIN source_docs) : FindFiles(order)
    \/ AnalyzeChanges
    \/ DeleteOrphans
    \/ ChunkFile
    \/ \E ok \in BOOLEAN : UploadBatch(ok)
    \/ UploadDone
    \/ VerifyUpload
    \/ ArchiveWrite
    \/ ArchiveUnlink
    \/ ArchiveSource
    \/ UpdateTracking
    \/ FinalReport
    \/ Abort
    \/ ProcessExit

Spec == Init /\ [][Next]_vars

\* ------------------------------------------------------------------------
\* What the claims speak about
\* ------------------------------------------------------------------------
\* The tracked files as load_tracking gave them at the start of the run.
PreTracked ==
    IF pre.tracking_file # <<>> THEN pre.tracking_file[1].files ELSE <<>>

\* The hash of a source document as it was when the run started.
PreHash(filename) == compute_file_hash(pre.source_docs[filename])

\* analyze_changes has run in this run.
Analyzed == files # <<>> /\ changes # NoChanges

\* The tracked files as the tracking file holds them now.
TrackedNow == IF tracking_file # <<>> THEN tracking_file[1].files ELSE <<>>

\* The upload loop sends all_records[i:i + 96] as batch i // 96 + 1.
BatchOf(k) == (k - 1) \div UPSERT_BATCH_SIZE + 1

\* The documents with a record in a batch whose upsert raised.
FailedDocs ==
    {all_records[k].filename :
        k \in {j \in DOMAIN all_records : BatchOf(j) \in Range(upload_errors)}}

\* ------------------------------------------------------------------------
\* C1
\* ------------------------------------------------------------------------
\* C1: a document with a record in a failed upload batch is not archived: its
\* source document stays in the source directory, its chunk artifact stays in
\* staging with status "staging", and the tracking file does not record its
\* present content, so that the next run takes it up again.
C1_FailedUploadNotArchived ==
    \A f \in FailedDocs :
        /\ f \in DOMAIN source_docs
        /\ safe_filename(f) \in DOMAIN chunks_dir
        /\ chunks_dir[safe_filename(f)].status = "staging"
        /\ ~(/\ f \in DOMAIN TrackedNow
             /\ TrackedNow[f].content_hash = compute_file_hash(source_docs[f]))

\* ------------------------------------------------------------------------
\* C2
\* ------------------------------------------------------------------------
\* C2: every chunk id the tracking file records for a file was uploaded, for
\* that file with the recorded content hash, by an upsert the external index
\* confirmed.
C2_TrackedIdsConfirmed ==
    \A f \in DOMAIN TrackedNow :
        \A id \in Range(TrackedNow[f].chunk_ids) :
            <<f, TrackedNow[f].content_hash, id>> \in confirmed

\* ------------------------------------------------------------------------
\* C3
\* ------------------------------------------------------------------------
\* The tracking file of the start of the run held nothing but records of
\* ingestions by runs without a failed batch.
PreTrackedClean ==
    \A g \in DOMAIN PreTracked :
        /\ g \in DOMAIN ingested
        /\ PreTracked[g].content_hash = ingested[g].content_hash

\* C3: after runs without a failed batch, a file that one of them ingested,
\* whose chunk ids of that ingestion are in the index, and that is in the
\* source directory again with another content, is classified as changed,
\* whatever was ingested in between; all of its old chunk ids are in the
\* orphan list and are out of the index when chunking begins.
C3_ReingestedIsChanged ==
    Analyzed /\ PreTrackedClean =>
        \A f \in Range(files) :
            (/\ f \in DOMAIN ingested
             /\ ingested[f].content_hash # PreHash(f)
             /\ Range(ingested[f].chunk_ids) \subseteq pre.index)
            => /\ f \in Range(changes.changed_files)
               /\ Range(ingested[f].chunk_ids)
                      \subseteq Range(changes.orphan_chunk_ids)
               /\ pc = "chunking" =>
                      Range(ingested[f].chunk_ids) \cap index = {}

\* ------------------------------------------------------------------------
\* C4
\* ------------------------------------------------------------------------
\* C4: analyze_changes puts every input file into exactly one of new_files,
\* changed_files and unchanged_files: new iff the filename is not tracked,
\* changed iff it is tracked with another content hash than the file has now,
\* unchanged iff it is tracked with the same hash; the lists are pairwise
\* disjoint, hold no file twice, and together hold exactly the input files.
C4_Partition ==
    Analyzed =>
        /\ \A f \in Range(files) :
              /\ f \in Range(changes.new_files) <=> f \notin DOMAIN PreTracked
              /\ f \in Range(changes.changed_files) <=>
                    /\ f \in DOMAIN PreTracked
                    /\ PreTracked[f].content_hash # PreHash(f)
              /\ f \in Range(changes.unchanged_files) <=>
                    /\ f \in DOMAIN PreTracked
                    /\ PreTracked[f].content_hash = PreHash(f)
        /\ Range(changes.new_files) \cap Range(changes.changed_files) = {}
        /\ Range(changes.new_files) \cap Range(changes.unchanged_files) = {}
        /\ Range(changes.changed_files) \cap Range(changes.unchanged_files) = {}
        /\ Range(changes.new_files) \cup Range(changes.changed_files)
              \cup Range(changes.unchanged_files) = Range(files)
        /\ Len(changes.new_files) + Len(changes.changed_files)
              + Len(changes.unchanged_files) = Len(files)

\* A run in which one file is changed and another is unchanged.
C4_Witness ==
    /\ Analyzed
    /\ changes.changed_files # <<>>
    /\ changes.unchanged_files # <<>>

\* ------------------------------------------------------------------------
\* C5
\* ------------------------------------------------------------------------
\* C5: the orphan list holds every chunk id recorded for each changed file,
\* and no chunk id recorded for a file that is new or unchanged or for a
\* tracked filename that is not among the input files.
C5_Orphans ==
    Analyzed =>
        /\ \A f \in Range(changes.changed_files) :
              Range(PreTracked[f].chunk_ids)
                  \subseteq Range(changes.orphan_chunk_ids)
        /\ \A f \in DOMAIN PreTracked :
              f \notin Range(changes.changed_files) =>
                  Range(PreTracked[f].chunk_ids)
                      \cap Range(changes.orphan_chunk_ids) = {}

\* A changed file with recorded chunk ids next to an unchanged file with
\* recorded chunk ids.
C5_Witness ==
    /\ Analyzed
    /\ \E f \in Range(changes.changed_files) : PreTracked[f].chunk_ids # <<>>
    /\ \E f \in Range(changes.unchanged_files) : PreTracked[f].chunk_ids # <<>>

\* ------------------------------------------------------------------------
\* C6
\* ------------------------------------------------------------------------
\* The files of the records, of the staging entries, the files that left the
\* source directory in this run, and the ids the run sent in upsert calls,
\* confirmed or not.
ChunkedFiles == {all_records[k].filename : k \in DOMAIN all_records}
StagedFiles == {staging_files[k].filename : k \in DOMAIN staging_files}
MovedFiles == DOMAIN pre.source_docs \ DOMAIN source_docs
UpsertedIds ==
    UNION {Range(calls[k].ids) : k \in {j \in DOMAIN calls :
                                            calls[j].op = "upsert"}}

\* The archive loop of the run is over.
ArchiveLoopDone ==
    \/ pc \in {"update_tracking", "final_report"}
    \/ pc = "ended"

\* An unchanged file is as the run found it, in every directory and in the
\* tracking file, and nothing of it went to the index.
Untouched(f) ==
    /\ f \in DOMAIN source_docs
    /\ source_docs[f] = pre.source_docs[f]
    /\ f \notin ChunkedFiles
    /\ f \notin StagedFiles
    /\ safe_filename(f) \in DOMAIN chunks_dir
          <=> safe_filename(f) \in DOMAIN pre.chunks_dir
    /\ safe_filename(f) \in DOMAIN chunks_dir
          => chunks_dir[safe_filename(f)] = pre.chunks_dir[safe_filename(f)]
    /\ safe_filename(f) \in DOMAIN archived_chunks
          <=> safe_filename(f) \in DOMAIN pre.archived_chunks
    /\ safe_filename(f) \in DOMAIN archived_chunks
          => archived_chunks[safe_filename(f)]
                = pre.archived_chunks[safe_filename(f)]
    /\ f \in DOMAIN archived_source_docs
          <=> f \in DOMAIN pre.archived_source_docs
    /\ f \in DOMAIN archived_source_docs
          => archived_source_docs[f] = pre.archived_source_docs[f]
    /\ UpsertedIds
          \cap Range(process_file(f, source_docs[f]).chunk_ids) = {}
    /\ f \in DOMAIN TrackedNow
    /\ TrackedNow[f] = PreTracked[f]

UpToDatePre ==
    \A f \in DOMAIN pre.source_docs :
        IsMd(f) /\ f # DesktopIni =>
            /\ f \in DOMAIN PreTracked
            /\ PreTracked[f].content_hash = PreHash(f)

UpToDateNow ==
    \A f \in DOMAIN source_docs :
        IsMd(f) /\ f # DesktopIni =>
            /\ f \in DOMAIN TrackedNow
            /\ TrackedNow[f].content_hash = compute_file_hash(source_docs[f])

\* C7: a run that starts with every source file tracked under its present
\* hash, or with no source file, chunks nothing, writes no staging artifact,
\* calls neither upsert nor delete, moves no file and leaves the tracking
\* file as it is; and a run that returns after it connected leaves the
\* directories and the tracking file in such a state, so that a second run
\* right after it is such a run.
C7_Idempotence ==
    /\ (pc # "idle" /\ UpToDatePre) =>
          /\ Snapshot = pre
          /\ calls = <<>>
          /\ all_records = <<>>
          /\ staging_files = <<>>
    /\ (/\ pc = "ended"
        /\ logger.report.status \in {"completed", "partial"}) => UpToDateNow

\* A run that found a file, tracked under its present hash, and returned.
C7_Witness ==
    /\ pc = "ended"
    /\ UpToDatePre
    /\ changes.unchanged_files # <<>>
    /\ logger.report.status = "completed"

\* ------------------------------------------------------------------------
\* C8
\* ------------------------------------------------------------------------
\* The ids the run has submitted for deletion.
DeletedIds ==
    UNION {Range(calls[k].ids) : k \in {j \in DOMAIN calls :
                                            calls[j].op = "delete"}}

\* C8: within a run every delete call comes before the first upsert call,
\* and when the first upsert call is made every orphan chunk id of the
\* changed files has been submitted for deletion.
C8_DeleteBeforeUpsert ==
    /\ \A j, k \in DOMAIN calls :
          calls[j].op = "upsert" /\ calls[k].op = "delete" => k < j
    /\ (\E j \in DOMAIN calls : calls[j].op = "upsert") =>
          Range(changes.orphan_chunk_ids) \subseteq DeletedIds

\* A run that deleted the old chunk ids of a changed file and then uploaded.
C8_Witness ==
    \E j, k \in DOMAIN calls :
        /\ j < k
        /\ calls[j].op = "delete"
        /\ calls[j].ids # <<>>
        /\ calls[k].op = "upsert"

\* ------------------------------------------------------------------------
\* C9
\* ------------------------------------------------------------------------
\* The run has not come to save_tracking yet.
BeforeTrackingWrite ==
    pc \in {"connect", "find_files", "analyze", "delete_orphans", "chunking",
            "upload", "verify", "archive", "archive_unlink", "archive_source",
            "update_tracking"}

\* The writes of the tracking file in this run.
TrackingWrites == {k \in DOMAIN calls : calls[k].op = "save_tracking"}

\* Both archive moves are done for every processed document.
AllArchived ==
    /\ StagedFiles = Range(files_to_process)
    /\ \A k \in DOMAIN staging_files :
          /\ staging_files[k].staging_path \notin DOMAIN chunks_dir
          /\ staging_files[k].staging_path \in DOMAIN archived_chunks
          /\ archived_chunks[staging_files[k].staging_path].status = "archived"
          /\ staging_files[k].source_path \notin DOMAIN source_docs
          /\ staging_files[k].source_path \in DOMAIN archived_source_docs

\* The tracking file holds, for every processed file, the hash and the chunk
\* ids that this run computed.
RecordsOfThisRun ==
    \A f \in Range(files_to_process) :
        /\ f \in DOMAIN TrackedNow
        /\ TrackedNow[f].content_hash = PreHash(f)
        /\ TrackedNow[f].chunk_ids
              = process_file(f, pre.source_docs[f]).chunk_ids

\* C9: a run writes the tracking file at most once, and only when both
\* archive moves are done for every processed document; up to that write,
\* wherever the run stops, the tracking file is as it was when the run
\* started; the written record of each processed file holds the content hash
\* and the chunk ids computed in this run.
C9_TrackingWrittenLast ==
    pc # "idle" =>
        /\ Cardinality(TrackingWrites) <= 1
        /\ BeforeTrackingWrite => TrackingWrites = {}
        /\ TrackingWrites = {} => tracking_file = pre.tracking_file
        /\ TrackingWrites # {} =>
              /\ AllArchived
              /\ RecordsOfThisRun
              /\ tracking_file = <<calls[Len(calls)].written>>

\* The tracking file is written by a run that processed two documents.
C9_Witness ==
    /\ pc = "final_report"
    /\ TrackingWrites # {}
    /\ tracking_file # pre.tracking_file
    /\ Len(staging_files) = 2
    /\ AllArchived

\* ------------------------------------------------------------------------
\* C10
\* ------------------------------------------------------------------------
\* The artifact of the k-th processed document is archived by this run: it
\* is in the archive with status "archived" and out of staging.
ArtifactArchived(k) ==
    /\ staging_files[k].staging_path \in DOMAIN archived_chunks
    /\ archived_chunks[staging_files[k].staging_path].status = "archived"
    /\ archived_chunks[staging_files[k].staging_path].archived_at = clock
    /\ staging_files[k].staging_path \notin DOMAIN chunks_dir

\* main calls move_chunks_to_archive (line 523) before
\* move_source_to_archive (line 526).
\* C10, as the claim has it: the artifact of a processed document is
\* archived only after its source document has left the source directory;
\* in no state is the artifact archived and the source document still in
\* the source directory.
C10_ArtifactAfterSource ==
    \A k \in DOMAIN staging_files :
        ArtifactArchived(k) =>
            staging_files[k].source_path \notin DOMAIN source_docs

\* C10, amended: the source document of a processed document leaves the
\* source directory only after its artifact is archived; in no state is the
\* source document moved and the artifact still in staging or not in the
\* archive.
C10_SourceAfterArtifact ==
    \A k \in DOMAIN staging_files :
        staging_files[k].source_path \notin DOMAIN source_docs =>
            /\ ArtifactArchived(k)
            /\ staging_files[k].source_path \in DOMAIN archived_source_docs

\* In the archive loop over two documents: the first is archived, artifact
\* and source; the artifact of the second is archived, its source is not.
C10_Witness ==
    /\ pc = "archive_source"
    /\ Len(staging_files) = 2
    /\ staging_files[1].source_path \notin DOMAIN source_docs
    /\ ArtifactArchived(1)
    /\ ArtifactArchived(2)
    /\ staging_files[2].source_path \in DOMAIN source_docs

\* ------------------------------------------------------------------------
\* C11
\* ------------------------------------------------------------------------
\* The run found the file as an interruption between the two archive moves
\* leaves it: in the source directory, its artifact out of staging and in
\* the archive with the chunk ids of this content, and no run has come to
\* record this content.
InterruptedBetweenMoves(f) ==
    /\ f \in DOMAIN pre.source_docs
    /\ safe_filename(f) \notin DOMAIN pre.chunks_dir
    /\ safe_filename(f) \in DOMAIN pre.archived_chunks
    /\ pre.archived_chunks[safe_filename(f)].status = "archived"
    /\ ~(f \in DOMAIN ingested /\ ingested[f].content_hash = PreHash(f))
    /\ LET chunks == pre.archived_chunks[safe_filename(f)].chunks
       IN  [k \in DOMAIN chunks |-> chunks[k].id]
               = process_file(f, pre.source_docs[f]).chunk_ids

\* C11: a document that an interrupted run left between the two archive
\* moves is, in the next run, not classified as new or changed and is not
\* chunked again.
C11_InterruptedNotReprocessed ==
    Analyzed =>
        \A f \in Range(files) :
            InterruptedBetweenMoves(f) =>
                /\ f \notin Range(files_to_process)
                /\ f \notin ChunkedFiles

\* ------------------------------------------------------------------------
\* C13
\* ------------------------------------------------------------------------
\* C13: a run whose report has status 'failed' (missing API key or failed
\* connection) has ended with its report saved, has hashed, chunked and
\* staged nothing, has left every directory, the tracking file and the index
\* as it found them, and has issued no delete or upsert call.
C13_FatalStartupTouchesNothing ==
    logger.report.status = "failed" =>
        /\ pc = "ended"
        /\ logger.saved = <<logger.report>>
        /\ Len(logger.report.errors) = 1
        /\ Snapshot = pre
        /\ calls = <<>>
        /\ files = <<>>
        /\ changes = NoChanges
        /\ all_records = <<>>
        /\ staging_files = <<>>
        /\ files_tracking = <<>>

\* A fatal startup error (here a failed connection) with a document waiting
\* in the source directory and a tracking file written by an earlier run.
C13_Witness ==
    /\ pc = "ended"
    /\ logger.report.status = "failed"
    /\ logger.report.errors = <<"connect_failed">>
    /\ source_docs # <<>>
    /\ tracking_file # <<>>

\* ------------------------------------------------------------------------
\* C14
\* ------------------------------------------------------------------------
\* The steps of main where the delete collaborator (line 445) or a
\* per-document file operation (lines 456-461, 523-526) runs.  None of them
\* is inside a try statement, and logger.save() (line 581) is not in a
\* finally clause.
UnguardedSteps ==
    {"delete_orphans", "chunking", "archive", "archive_unlink",
     "archive_source"}

\* C14: a run that ends because the delete collaborator or a per-document
\* file operation failed has saved its report before it ends.
C14_ReportSavedBeforeEnd ==
    [][(pc \in UnguardedSteps /\ pc' = "idle") => logger.saved # <<>>]_vars

\* ------------------------------------------------------------------------
\* The first run over a source directory, from the chunking loop on
\* ------------------------------------------------------------------------
\* The state of main at line 454 in the first run of an installation whose
\* source directory holds docs, listed in the given order: nothing is
\* tracked, staged, archived or indexed, every file is new.
AtChunking(docs, order) ==
    /\ source_docs = docs
    /\ chunks_dir = <<>>
    /\ archived_chunks = <<>>
    /\ archived_source_docs = <<>>
    /\ tracking_file = <<>>
    /\ index = {}
    /\ pc = "chunking"
    /\ clock = 1
    /\ logger = NewLogger
    /\ tracking = EmptyTracking
    /\ files = order
    /\ changes = analyze_changes(order, EmptyTracking)
    /\ all_records = <<>>
    /\ staging_files = <<>>
    /\ files_tracking = <<>>
    /\ i = 0
    /\ upload_errors = <<>>
    /\ uploaded_count = 0
    /\ calls = <<>>
    /\ confirmed = {}
    /\ ingested = <<>>
    /\ pre = Snapshot
    /\ id_calls = NoIdCalls

\* ------------------------------------------------------------------------
\* The upload loop over many records
\* ------------------------------------------------------------------------
MaxBatches == 3

\* A text of n paragraphs of 1001 characters: no two of them fit one chunk,
\* so chunk_text gives n chunks.
ManyParagraphs(n) ==
    [k \in 1..(2 * n - 1) |-> IF k % 2 = 1 THEN <<"x", 1001>> ELSE <<"\n", 2>>]

\* Chunk counts of a.md around the multiples of the batch size.
ChunkCounts ==
    UNION {{UPSERT_BATCH_SIZE * b - 1, UPSERT_BATCH_SIZE * b} :
               b \in 1..MaxBatches}

\* a.md with n chunks, alone or followed by b.md with two chunks.
InitUpload ==
    \E n \in ChunkCounts : \E withB \in BOOLEAN :
        AtChunking(IF withB
                   THEN Put(Put(<<>>, FileA, ManyParagraphs(n)), FileB, TextTwo)
                   ELSE Put(<<>>, FileA, ManyParagraphs(n)),
                   IF withB THEN <<FileA, FileB>> ELSE <<FileA>>)

NextUpload ==
    \/ ChunkFile
    \/ \E ok \in BOOLEAN : UploadBatch(ok)
    \/ UploadDone

SpecUpload == InitUpload /\ [][NextUpload]_vars

\* ------------------------------------------------------------------------
\* C12
\* ------------------------------------------------------------------------
\* Line 490.
total_batches(count, batch_size) == (count + batch_size - 1) \div batch_size

\* C12: the k-th upsert call carries the records at positions 96(k-1)+1 ..
\* 96k of the chunking order (at most 96, the last batch the remainder), a
\* batch that raised is recorded as an error and the later batches are still
\* sent, and when the loop is over ceil(total / 96) calls have been made.
C12_Batches ==
    pc \in {"upload", "verify"} =>
        LET total == Len(all_records)
        IN  /\ \A k \in DOMAIN calls :
                  /\ calls[k].op = "upsert"
                  /\ Len(calls[k].ids) \in 1..UPSERT_BATCH_SIZE
                  /\ Len(calls[k].ids) =
                         IF UPSERT_BATCH_SIZE * k <= total
                         THEN UPSERT_BATCH_SIZE
                         ELSE total - UPSERT_BATCH_SIZE * (k - 1)
                  /\ \A j \in DOMAIN calls[k].ids :
                         calls[k].ids[j] =
                             all_records[UPSERT_BATCH_SIZE * (k - 1) + j]._id
                  /\ ~calls[k].ok =>
                         \E e \in DOMAIN logger.report.errors :
                             logger.report.errors[e] = <<"batch_failed", k>>
            /\ Len(upload_errors) =
                   Cardinality({k \in DOMAIN calls : ~calls[k].ok})
            /\ pc = "upload" =>
                   Len(calls) = total_batches(IF i < total THEN i ELSE total,
                                     UPSERT_BATCH_SIZE)
            /\ pc = "verify" => Len(calls) = total_batches(total, UPSERT_BATCH_SIZE)

\* Records of two documents sent in three or more batches, the first of
\* which raised, the second of which was confirmed, and the last of which
\* is shorter than 96.
C12_Witness ==
    /\ pc = "verify"
    /\ Len(staging_files) = 2
    /\ Len(calls) >= 3
    /\ ~calls[1].ok
    /\ calls[2].ok
    /\ Len(calls[Len(calls)].ids) < UPSERT_BATCH_SIZE

\* ------------------------------------------------------------------------
\* The chunking of one document
\* ------------------------------------------------------------------------
MaxPieces == 4

\* The pieces the texts are made of: a word shorter than MIN_CHUNK_CHARS, a
\* paragraph longer than that, a long paragraph, a sentence longer than
\* CHUNK_SIZE_CHARS, the end of a sentence, a paragraph break, and a run of
\* blanks longer than MIN_CHUNK_CHARS.
Pieces ==
    << << <<"a", 20>> >>,
       << <<"b", 150>> >>,
       << <<"c", 1200>> >>,
       << <<"d", 2100>> >>,
       << <<".", 1>>, <<" ", 1>> >>,
       << <<"\n", 2>> >>,
       << <<" ", 150>> >> >>

RECURSIVE JoinPieces(_)
JoinPieces(choice) ==
    IF choice = <<>> THEN <<>>
    ELSE StrCat(JoinPieces(SubSeq(choice, 1, Len(choice) - 1)),
                Pieces[choice[Len(choice)]])

\* The texts of at most MaxPieces pieces, the empty text among them.
Texts ==
    {JoinPieces(choice) :
        choice \in UNION {[1..n -> DOMAIN Pieces] : n \in 0..MaxPieces}}

\* a.md, holding one of the texts, alone in the source directory.
InitChunk ==
    \E text \in Texts : AtChunking(Put(<<>>, FileA, text), <<FileA>>)

NextChunk ==
    \/ ChunkFile
    \/ \E ok \in BOOLEAN : UploadBatch(ok)
    \/ UploadDone
    \/ VerifyUpload
    \/ ArchiveWrite
    \/ ArchiveUnlink
    \/ ArchiveSource
    \/ UpdateTracking
    \/ FinalReport

SpecChunk == InitChunk /\ [][NextChunk]_vars

\* The text of a.md that the run found.
InputText == pre.source_docs[FileA]

\* The file has been chunked.
Chunked == pc # "chunking"

\* ------------------------------------------------------------------------
\* C15
\* ------------------------------------------------------------------------
\* C15: every chunk that chunk_text returned, and so the text of every
\* record that main holds for the upload, has staged or has archived, has at
\* least MIN_CHUNK_CHARS characters.
C15_MinChunkLength ==
    /\ \A k \in DOMAIN all_records :
           StrLen(all_records[k].text) >= MIN_CHUNK_CHARS
    /\ \A path \in DOMAIN chunks_dir :
           \A k \in DOMAIN chunks_dir[path].chunks :
               StrLen(chunks_dir[path].chunks[k].text) >= MIN_CHUNK_CHARS
    /\ \A path \in DOMAIN archived_chunks :
           \A k \in DOMAIN archived_chunks[path].chunks :
               StrLen(archived_chunks[path].chunks[k].text) >= MIN_CHUNK_CHARS

\* A document of which the filter dropped a chunk and kept another, sent
\* and archived.
C15_Witness ==
    /\ pc = "update_tracking"
    /\ all_records # <<>>
    /\ Len(all_records) < Len(chunks_before_filter(InputText))
    /\ calls # <<>>
    /\ archived_chunks # <<>>

\* ------------------------------------------------------------------------
\* C16
\* ------------------------------------------------------------------------
\* The characters of s other than whitespace, in their order.
RECURSIVE NonWhitespace(_)
NonWhitespace(s) ==
    IF s = <<>> THEN <<>>
    ELSE LET rest == NonWhitespace(SubSeq(s, 1, Len(s) - 1))
         IN  IF s[Len(s)][1] \in Whitespace THEN rest
             ELSE StrCat(rest, <<s[Len(s)]>>)

\* The strings of a list one after the other.
RECURSIVE ConcatAll(_)
ConcatAll(strings) ==
    IF strings = <<>> THEN <<>>
    ELSE StrCat(ConcatAll(SubSeq(strings, 1, Len(strings) - 1)),
                strings[Len(strings)])

\* The chunks that process_file made records of.
RecordTexts == [k \in DOMAIN all_records |-> all_records[k].text]

\* C16 as the specification states it: the chunks returned hold, in the
\* original order, everything of the input but whitespace; no paragraph and
\* no sentence is lost.
C16_NothingLost ==
    Chunked => NonWhitespace(ConcatAll(RecordTexts)) = NonWhitespace(InputText)

\* C16: the chunks that chunk_text has built when its loop ends hold, in the
\* original order, everything of the input but whitespace, and the chunks
\* returned are these, in order, without the ones shorter than
\* MIN_CHUNK_CHARS.
C16_NothingLostBeforeFilter ==
    Chunked =>
        LET built == chunks_before_filter(InputText)
        IN  /\ NonWhitespace(ConcatAll(built)) = NonWhitespace(InputText)
            /\ RecordTexts =
                   SelectSeq(built, LAMBDA c : StrLen(c) >= MIN_CHUNK_CHARS)

\* A paragraph longer than CHUNK_SIZE_CHARS split into sentences, of which
\* the filter dropped one and kept another.
C16_Witness ==
    /\ pc = "upload"
    /\ Len(all_records) = 1
    /\ Len(chunks_before_filter(InputText)) = 2
    /\ \E k \in DOMAIN SplitParagraphs(InputText) :
           LET para == StrStrip(SplitParagraphs(InputText)[k])
           IN  /\ StrLen(para) > CHUNK_SIZE_CHARS
               /\ Len(SplitSentences(para)) >= 2

\* ------------------------------------------------------------------------
\* C17
\* ------------------------------------------------------------------------
\* Line 154 and line 160: the paragraphs of the input, stripped.
StrippedParagraphs ==
    LET paragraphs == SplitParagraphs(InputText)
    IN  [k \in DOMAIN paragraphs |-> StrStrip(paragraphs[k])]

\* C17 as the specification states it: a text longer than CHUNK_SIZE_CHARS
\* with a paragraph break in it gives more than one chunk.
C17_LongTextManyChunks ==
    (/\ Chunked
     /\ StrLen(InputText) > CHUNK_SIZE_CHARS
     /\ Len(SplitParagraphs(InputText)) >= 2)
        => Len(all_records) > 1

\* The input has two or more paragraphs, each of MIN_CHUNK_CHARS to
\* CHUNK_SIZE_CHARS characters when stripped, that are longer than
\* CHUNK_SIZE_CHARS when joined by blank lines.
ParagraphsOverflowOneChunk ==
    /\ Len(StrippedParagraphs) >= 2
    /\ \A k \in DOMAIN StrippedParagraphs :
           /\ StrLen(StrippedParagraphs[k]) >= MIN_CHUNK_CHARS
           /\ StrLen(StrippedParagraphs[k]) <= CHUNK_SIZE_CHARS
    /\ StrLen(ConcatAll(StrippedParagraphs))
           + 2 * (Len(StrippedParagraphs) - 1) > CHUNK_SIZE_CHARS

\* C17: a text of two or more paragraphs, each of MIN_CHUNK_CHARS to
\* CHUNK_SIZE_CHARS characters when stripped, that do not fit one chunk
\* together gives more than one chunk.
C17_OverflowingParagraphsManyChunks ==
    (Chunked /\ ParagraphsOverflowOneChunk) => Len(all_records) > 1

\* Two paragraphs of different lengths, of 2552 characters when joined, in
\* two chunks.
C17_Witness ==
    /\ pc = "upload"
    /\ ParagraphsOverflowOneChunk
    /\ Len(StrippedParagraphs) = 2
    /\ StrLen(StrippedParagraphs[1]) # StrLen(StrippedParagraphs[2])
    /\ Len(all_records) = 2

\* ------------------------------------------------------------------------
\* C18
\* ------------------------------------------------------------------------
\* Line 166: chunk is one of the sentences of a paragraph of the input that
\* is longer than CHUNK_SIZE_CHARS.
SentenceOfLongParagraph(chunk) ==
    \E k \in DOMAIN StrippedParagraphs :
        /\ StrLen(StrippedParagraphs[k]) > CHUNK_SIZE_CHARS
        /\ chunk \in Range(SplitSentences(StrippedParagraphs[k]))

\* C18: a chunk has at most CHUNK_SIZE_CHARS characters unless it is exactly
\* one sentence of a paragraph longer than CHUNK_SIZE_CHARS; when no
\* sentence of such a paragraph is longer than CHUNK_SIZE_CHARS, every chunk
\* is within CHUNK_SIZE_CHARS.
C18_ChunkSize ==
    Chunked =>
        /\ \A k \in DOMAIN RecordTexts :
               \/ StrLen(RecordTexts[k]) <= CHUNK_SIZE_CHARS
               \/ SentenceOfLongParagraph(RecordTexts[k])
        /\ (\A p \in DOMAIN StrippedParagraphs :
                \A sentence \in Range(SplitSentences(StrippedParagraphs[p])) :
                    StrLen(sentence) <= CHUNK_SIZE_CHARS)
               => \A k \in DOMAIN RecordTexts :
                      StrLen(RecordTexts[k]) <= CHUNK_SIZE_CHARS

\* One paragraph longer than CHUNK_SIZE_CHARS split into a sentence within
\* the target, a chunk of its own, and a sentence beyond it, emitted whole.
C18_Witness ==
    /\ pc = "upload"
    /\ Len(StrippedParagraphs) = 1
    /\ Len(all_records) = 2
    /\ StrLen(RecordTexts[1]) <= CHUNK_SIZE_CHARS
    /\ StrLen(RecordTexts[2]) > CHUNK_SIZE_CHARS
    /\ SentenceOfLongParagraph(RecordTexts[2])

\* ------------------------------------------------------------------------
\* C19
\* ------------------------------------------------------------------------
\* The input is the empty string or holds nothing but whitespace.
WhitespaceOnly ==
    \A r \in DOMAIN InputText : InputText[r][1] \in Whitespace

\* C19: for the empty string and for an input of nothing but whitespace,
\* chunk_text returns the empty list: no record is made and the staged
\* artifact holds no chunk.
C19_WhitespaceGivesNoChunk ==
    (Chunked /\ WhitespaceOnly) =>
        /\ all_records = <<>>
        /\ \A path \in DOMAIN chunks_dir : chunks_dir[path].chunks = <<>>

\* Two paragraphs of blanks, each longer than MIN_CHUNK_CHARS, separated by
\* a blank line.
C19_Witness ==
    /\ pc = "upload"
    /\ WhitespaceOnly
    /\ Len(SplitParagraphs(InputText)) = 2
    /\ \A k \in 1..2 :
           StrLen(SplitParagraphs(InputText)[k]) >= MIN_CHUNK_CHARS
    /\ all_records = <<>>

\* ------------------------------------------------------------------------
\* generate_id on its own
\* ------------------------------------------------------------------------
MaxIndex == 2

\* Filenames and texts with and without '_' and digits; texts shorter and
\* longer than ID_PREFIX_CHARS, two of the long ones with the same first
\* ID_PREFIX_CHARS characters.
IdFilenames ==
    {<< <<"a", 1>> >>,
     << <<"a", 1>>, <<"_", 1>>, <<"1", 1>> >>}

IdTexts ==
    {<< <<"T", 1>> >>,
     << <<"2", 1>>, <<"_", 1>>, <<"T", 1>> >>,
     << <<"T", 60>> >>,
     << <<"T", 50>>, <<"U", 10>> >>}

IdArgs ==
    [filename : IdFilenames, chunk_index : 0..MaxIndex, text : IdTexts]

\* Two calls of generate_id are to be made, in no run of main.
InitId ==
    /\ FreshInstallation
    /\ \E first \in IdArgs : \E second \in IdArgs :
           id_calls = [args |-> <<first, second>>, ids |-> <<>>]

\* The next call of generate_id.
GenerateId ==
    /\ Len(id_calls.ids) < Len(id_calls.args)
    /\ LET a == id_calls.args[Len(id_calls.ids) + 1]
       IN  id_calls' =
               [id_calls EXCEPT !.ids =
                    Append(@, generate_id(a.filename, a.chunk_index, a.text))]
    /\ UNCHANGED <<persistent, pc, clock, logger, locals, calls, confirmed,
                   ingested, pre>>

NextId == GenerateId

SpecId == InitId /\ [][NextId]_vars

\* ------------------------------------------------------------------------
\* C20
\* ------------------------------------------------------------------------
\* The triple of a call: the filename, the ordinal and the first
\* ID_PREFIX_CHARS characters of the text.
Triple(a) == <<a.filename, a.chunk_index, StrTake(a.text, ID_PREFIX_CHARS)>>

ArchivedChunksOf(filename) ==
    IF safe_filename(filename) \in DOMAIN archived_chunks
    THEN archived_chunks[safe_filename(filename)].chunks
    ELSE <<>>

\* The file is chunked again with the content of its last clean ingestion.
RechunkedUnchanged(filename) ==
    /\ filename \in DOMAIN files_tracking
    /\ filename \in DOMAIN ingested
    /\ files_tracking[filename].content_hash = ingested[filename].content_hash

\* C21: a record of this run and an archived chunk of the same file with
\* the same ordinal and texts that agree on their first 50 characters have
\* the same id; every id has 16 hexadecimal characters; a document chunked
\* again with unchanged content gets the chunk id list it had.
C21_IdIsFunctionOfTriple ==
    /\ \A r \in Range(all_records) :
           /\ id_length(r._id) = 16
           /\ \A c \in Range(ArchivedChunksOf(r.filename)) :
                  (/\ c.chunk_index = r.chunk_index
                   /\ StrTake(c.text, ID_PREFIX_CHARS)
                          = StrTake(r.text, ID_PREFIX_CHARS))
                      => c.id = r._id
    /\ \A f \in DOMAIN files_tracking :
           RechunkedUnchanged(f) =>
               files_tracking[f].chunk_ids = ingested[f].chunk_ids

\* A file archived with one text is chunked again with another text, whose
\* first chunk differs from the archived one but agrees with it on the first
\* 50 characters, and a file is chunked again with unchanged content.
C21_Witness ==
    /\ \E r \in Range(all_records) :
           \E c \in Range(ArchivedChunksOf(r.filename)) :
               /\ c.chunk_index = r.chunk_index
               /\ c.text # r.text
               /\ StrTake(c.text, ID_PREFIX_CHARS)
                      = StrTake(r.text, ID_PREFIX_CHARS)
    /\ \E f \in DOMAIN files_tracking : RechunkedUnchanged(f)

\* ------------------------------------------------------------------------
\* The categorisation of one document
\* ------------------------------------------------------------------------
MaxWords == 2

\* The words the filenames are made of, in mixed case: the keywords of the
\* six rules, a word with no keyword in it, and two halves of a keyword.
Words ==
    << <<"u0417", "u0410", "u041a", "u041e", "u041d">>,
       <<"G", "e", "m">>,
       <<"E", "X", "P", "E", "R", "T">>,
       <<"A", "r", "t", "i", "c", "l", "e">>,
       <<"u0410", "u043d", "u0430", "u043b", "u0456", "u0437">>,
       <<"u0414", "u043e", "u0433", "u043e", "u0432", "u0406", "u0440">>,
       <<"u0434", "u043e", "u0433", "u043e", "u0432", "u043e", "u0440">>,
       <<"N", "d", "a">>,
       <<"n", "o", "t", "e", "s">>,
       <<"g", "E">>,
       <<"M">> >>

\* The string of a sequence of characters.
RECURSIVE StrOf(_)
StrOf(chars) ==
    IF chars = <<>> THEN <<>>
    ELSE StrCat(StrOf(SubSeq(chars, 1, Len(chars) - 1)),
                << <<chars[Len(chars)], 1>> >>)

RECURSIVE JoinWords(_)
JoinWords(choice) ==
    IF choice = <<>> THEN <<>>
    ELSE JoinWords(SubSeq(choice, 1, Len(choice) - 1))
             \o Words[choice[Len(choice)]]

\* The names of at most MaxWords words, with the suffix of a document.
Filenames ==
    {StrOf(JoinWords(choice) \o <<".", "m", "d">>) :
        choice \in UNION {[1..n -> DOMAIN Words] : n \in 0..MaxWords}}

\* One document of one chunk, under one of the names, alone in the source
\* directory.
InitCategory ==
    \E name \in Filenames : AtChunking(Put(<<>>, name, TextOne), <<name>>)

NextCategory == ChunkFile

SpecCategory == InitCategory /\ [][NextCategory]_vars

\* ------------------------------------------------------------------------
\* C22
\* ------------------------------------------------------------------------
\* The name of the document contains the keyword, whatever the case.
Has(keyword) == Contains(LowerChars(files[1]), keyword)

\* C22: the tag of a document is one of the six tags, and it is the tag of
\* the first rule, in the order legislation, research, article, analysis,
\* contract, that has a keyword in the name, whatever the case; a name with
\* a research and an analysis keyword (and no keyword of the rule ahead of
\* both) is research; a name with no keyword is other.
C22_FirstMatchingRule ==
    \A r \in Range(all_records) :
        LET tag == r.doc_type
            legislation == Has(KwZakon)
            research == Has(KwGem)
            article == Has(KwExpert) \/ Has(KwArticle)
            analysis == Has(KwAnaliz)
            contract == Has(KwDogovir) \/ Has(KwDogovor) \/ Has(KwNda)
        IN  /\ tag \in {"legislation", "research", "article", "analysis",
                        "contract", "other"}
            /\ legislation => tag = "legislation"
            /\ (research /\ ~legislation) => tag = "research"
            /\ (article /\ ~legislation /\ ~research) => tag = "article"
            /\ (analysis /\ ~legislation /\ ~research /\ ~article)
                   => tag = "analysis"
            /\ (contract /\ ~legislation /\ ~research /\ ~article
                    /\ ~analysis) => tag = "contract"
            /\ (research /\ analysis /\ ~legislation) => tag = "research"
            /\ (~legislation /\ ~research /\ ~article /\ ~analysis
                    /\ ~contract) <=> tag = "other"

\* A name with a research keyword, in capitals, after an analysis keyword,
\* tagged research.
C22_Witness ==
    /\ all_records # <<>>
    /\ Has(KwGem)
    /\ Has(KwAnaliz)
    /\ ~Contains(StrChars(files[1]), KwGem)
    /\ all_records[1].doc_type = "research"

\* ------------------------------------------------------------------------
\* C23
\* ------------------------------------------------------------------------
\* The run has written the tracking file and has not yet left the process.
TrackingUpdated == pc \in {"final_report", "ended"} /\ TrackingWrites # {}

C24_AbsentFilesStayTracked ==
    TrackingUpdated =>
        \A f \in DOMAIN PreTracked :
            f \notin DOMAIN pre.source_docs =>
                /\ f \in DOMAIN TrackedNow
                /\ TrackedNow[f] = PreTracked[f]

\* ------------------------------------------------------------------------
\* C25
\* ------------------------------------------------------------------------
\* The chunks of the input that the filter of line 184 keeps.
KeptChunks ==
    SelectSeq(chunks_before_filter(InputText),
              LAMBDA c : StrLen(c) >= MIN_CHUNK_CHARS)

\* The artifacts of a.md that exist, in staging and in the archive.
ArtifactsOfFileA ==
    {chunks_dir[path] : path \in DOMAIN chunks_dir \cap {safe_filename(FileA)}}
        \cup {archived_chunks[path] :
                 path \in DOMAIN archived_chunks \cap {safe_filename(FileA)}}

\* C25: the n records of a processed document carry the kept chunks with
\* ordinals 0..n-1 in order and total_chunks n; the chunk_ids list has the
\* ids of the records in that order; the artifact, staged or archived,
\* lists the chunks in ascending ordinal order with total_chunks n; the
\* tracking record, prepared and written, has chunks_count equal to the
\* length of its chunk_ids.
C25_OrdinalsAndCounts ==
    Chunked =>
        LET n == Len(all_records)
        IN  /\ n = Len(KeptChunks)
            /\ \A k \in 1..n :
                   /\ all_records[k].chunk_index = k - 1
                   /\ all_records[k].total_chunks = n
                   /\ all_records[k].text = KeptChunks[k]
            /\ \A s \in DOMAIN staging_files :
                   staging_files[s].chunk_ids =
                       [k \in 1..n |-> all_records[k]._id]
            /\ \A artifact \in ArtifactsOfFileA :
                   /\ artifact.total_chunks = n
                   /\ Len(artifact.chunks) = n
                   /\ \A k \in 1..n :
                          /\ artifact.chunks[k].chunk_index = k - 1
                          /\ artifact.chunks[k].id = all_records[k]._id
            /\ \A f \in DOMAIN files_tracking :
                   /\ files_tracking[f].chunks_count
                          = Len(files_tracking[f].chunk_ids)
                   /\ files_tracking[f].chunk_ids
                          = [k \in 1..n |-> all_records[k]._id]
            /\ \A f \in DOMAIN TrackedNow :
                   TrackedNow[f].chunks_count = Len(TrackedNow[f].chunk_ids)

\* The first chunk built was dropped as too short, the second one is the
\* record with ordinal 0, and the tracking file is written.
C25_Witness ==
    /\ pc = "final_report"
    /\ tracking_file # <<>>
    /\ Len(chunks_before_filter(InputText)) = 2
    /\ StrLen(chunks_before_filter(InputText)[1]) < MIN_CHUNK_CHARS
    /\ Len(all_records) = 1
    /\ all_records[1].chunk_index = 0
    /\ all_records[1].text = chunks_before_filter(InputText)[2]
    /\ archived_chunks # <<>>

\* ------------------------------------------------------------------------
\* Runs over documents that yield no chunk
\* ------------------------------------------------------------------------
\* Two paragraphs that make one chunk of 42 characters, which the filter of
\* line 184 drops: chunk_text returns [].
TextShort == << <<"a", 20>>, <<"\n", 2>>, <<"b", 20>> >>

ShortPlaceable ==
    ({FileA} \X {TextShort, TextOne}) \cup ({FileB} \X {TextOne})

\* The runs of main that start with an API key and a connection and run to
\* their return.
NextEmptyDoc ==
    \/ \E doc \in ShortPlaceable : PlaceFile(doc[1], doc[2])
    \/ \E api_key \in {TRUE} : StartRun(api_key)
    \/ \E ok \in {TRUE} : Connect(ok)
    \/ \E order \in Orders(DOMAIN source_docs) : FindFiles(order)
    \/ AnalyzeChanges
    \/ DeleteOrphans
    \/ ChunkFile
    \/ \E ok \in BOOLEAN : UploadBatch(ok)
    \/ UploadDone
    \/ VerifyUpload
    \/ ArchiveWrite
    \/ ArchiveUnlink
    \/ ArchiveSource
    \/ UpdateTracking
    \/ FinalReport
    \/ ProcessExit

SpecEmptyDoc == Init /\ [][NextEmptyDoc]_vars

\* ------------------------------------------------------------------------
\* C26
\* ------------------------------------------------------------------------
\* The run found the file with a text that yields no chunk, and processes it.
ProcessedWithoutChunks(f) ==
    /\ f \in Range(files_to_process)
    /\ chunk_text(pre.source_docs[f]) = <<>>

\* The lifecycle of the documents without chunks, as far as the run has
\* come: no record, an artifact with an empty chunk list in staging from
\* the chunking loop to the archive loop, and, when main has returned, that
\* artifact in the archive, the source moved, nothing of the file sent, and
\* a tracking record with no chunk id.
EmptyDocLifecycle ==
    \A f \in Range(files) :
        ProcessedWithoutChunks(f) =>
            LET path == safe_filename(f)
            IN  /\ \A r \in Range(all_records) : r.filename # f
                /\ (f \in StagedFiles /\ pc \in {"upload", "verify"}) =>
                       /\ path \in DOMAIN chunks_dir
                       /\ chunks_dir[path].chunks = <<>>
                       /\ chunks_dir[path].total_chunks = 0
                /\ pc = "ended" =>
                       /\ TrackingWrites # {}
                       /\ path \notin DOMAIN chunks_dir
                       /\ path \in DOMAIN archived_chunks
                       /\ archived_chunks[path].status = "archived"
                       /\ archived_chunks[path].chunks = <<>>
                       /\ f \notin DOMAIN source_docs
                       /\ f \in DOMAIN archived_source_docs
                       /\ archived_source_docs[f] = pre.source_docs[f]
                       /\ \A k \in DOMAIN calls :
                              calls[k].op = "upsert" =>
                                  \A j \in DOMAIN calls[k].ids :
                                      calls[k].ids[j]
                                          \in {r._id : r \in Range(all_records)}
                       /\ f \in DOMAIN TrackedNow
                       /\ TrackedNow[f].chunk_ids = <<>>
                       /\ TrackedNow[f].chunks_count = 0
                       /\ TrackedNow[f].content_hash = PreHash(f)

MaxSyncs == 2

\* Line 98: the uploaded_at of a record written by the sync when the
\* artifact carries none (main's artifacts never do): the fixed date
\* "2025-12-01T00:00:00", which lies before every run of the model's clock.
DEFAULT_UPLOADED_AT == -1

\* Line 75: chunk_file.stem[:16].
STEM_PREFIX_CHARS == 16

\* Lines 42-43: the *.json files of archived_chunks other than _index.json.
\* The directories of the model are keyed by the stem of the file.
chunk_files(order) == order

\* Line 65: chunk_ids = [c["id"] for c in chunk_data.get("chunks", [])].
artifact_chunk_ids(chunk_data) ==
    [k \in 1..Len(chunk_data.chunks) |-> chunk_data.chunks[k].id]

\* Lines 68-76: the hash and the location that the sync records.
sync_content_hash(filename, stem) ==
    IF filename \in DOMAIN archived_source_docs
    THEN compute_file_hash(archived_source_docs[filename])
    ELSE [chunks_only |-> StrTake(stem, STEM_PREFIX_CHARS)]

sync_source_location(filename) ==
    IF filename \in DOMAIN archived_source_docs
    THEN "archived_source_docs"
    ELSE "chunks_only"

SyncFile_NoSkip(acc, stem) ==
    LET chunk_data == archived_chunks[stem]
        filename == chunk_data.filename
        chunk_ids == artifact_chunk_ids(chunk_data)
    IN  [acc EXCEPT
            !.files = Put(acc.files, filename,
                          [content_hash |-> sync_content_hash(filename, stem),
                           chunk_ids |-> chunk_ids,
                           chunks_count |-> Len(chunk_ids),
                           uploaded_at |-> DEFAULT_UPLOADED_AT,
                           source |-> sync_source_location(filename)]),
            !.added = @ + 1]

\* Lines 59-100: one iteration of the loop over the artifacts.
SyncFile(acc, stem) ==
    LET chunk_data == archived_chunks[stem]
        filename == chunk_data.filename
        chunk_ids == artifact_chunk_ids(chunk_data)
        tracked == filename \in DOMAIN acc.files
        written ==
            Put(acc.files, filename,
                [content_hash |-> sync_content_hash(filename, stem),
                 chunk_ids |-> chunk_ids,
                 chunks_count |-> Len(chunk_ids),
                 uploaded_at |-> DEFAULT_UPLOADED_AT,
                 source |-> sync_source_location(filename)])
    IN  IF tracked /\ Range(acc.files[filename].chunk_ids) = Range(chunk_ids)
        THEN [acc EXCEPT !.skipped = @ + 1]
        ELSE IF tracked
        THEN [acc EXCEPT !.files = written, !.updated = @ + 1]
        ELSE [acc EXCEPT !.files = written, !.added = @ + 1]

\* Lines 55-100: the loop.
RECURSIVE SyncFiles(_, _)
SyncFiles(acc, stems) ==
    IF stems = <<>> THEN acc
    ELSE SyncFiles(SyncFile(acc, Head(stems)), Tail(stems))

\* Lines 29-111: sync_from_local_chunks, run while main is not running.
\* It returns without writing when the archive holds no artifact
\* (lines 36-47) and saves the tracking file otherwise (line 103).
\* calls logs the counters the sync prints; pre is the state before it.
SyncFromLocalChunks(order) ==
    /\ pc \in {"idle", "synced"}
    /\ pc = "synced" => Len(calls) < MaxSyncs
    /\ LET tracking_read == load_tracking
           done == SyncFiles([files |-> tracking_read.files, added |-> 0,
                              skipped |-> 0, updated |-> 0],
                             chunk_files(order))
       IN  /\ tracking_file' =
                  IF chunk_files(order) = <<>>
                  THEN tracking_file
                  ELSE save_tracking([tracking_read EXCEPT
                                         !.files = done.files], clock)
           /\ calls' = (IF pc = "idle" THEN <<>> ELSE calls)
                       \o <<[op |-> "sync", added |-> done.added,
                             skipped |-> done.skipped,
                             updated |-> done.updated]>>
    /\ pc' = "synced"
    /\ pre' = Snapshot
    /\ UNCHANGED <<source_docs, chunks_dir, archived_chunks,
                   archived_source_docs, index, clock, logger, locals,
                   confirmed, ingested, id_calls>>

\* The sync script exits.
SyncExit ==
    /\ pc = "synced"
    /\ pc' = "idle"
    /\ calls' = <<>>
    /\ pre' = Snapshot
    /\ UNCHANGED <<persistent, clock, logger, locals, confirmed, ingested,
                   id_calls>>

\* Someone deletes an artifact from the archive while nothing runs.
RemoveArtifact(stem) ==
    /\ pc = "idle"
    /\ stem \in DOMAIN archived_chunks
    /\ archived_chunks' = Remove(archived_chunks, stem)
    /\ UNCHANGED <<source_docs, chunks_dir, archived_source_docs,
                   tracking_file, index, pc, clock, logger, locals,
                   calls, confirmed, ingested, pre, id_calls>>

\* main is interrupted while it archives. An interruption before that
\* leaves the archive and the tracking file, all that the sync reads, as
\* they were before the run.
InterruptArchiving ==
    /\ pc \in {"archive", "archive_unlink", "archive_source",
               "update_tracking"}
    /\ Abort

\* Runs of main (interrupted or not) and syncs between them.
NextSync ==
    \/ \E doc \in Placeable : PlaceFile(doc[1], doc[2])
    \/ \E api_key \in {TRUE} : StartRun(api_key)
    \/ \E ok \in {TRUE} : Connect(ok)
    \/ \E order \in Orders(DOMAIN source_docs) : FindFiles(order)
    \/ AnalyzeChanges
    \/ DeleteOrphans
    \/ ChunkFile
    \/ \E ok \in {TRUE} : UploadBatch(ok)
    \/ UploadDone
    \/ VerifyUpload
    \/ ArchiveWrite
    \/ ArchiveUnlink
    \/ ArchiveSource
    \/ UpdateTracking
    \/ FinalReport
    \/ ProcessExit
    \/ InterruptArchiving
    \/ \E stem \in DOMAIN archived_chunks : RemoveArtifact(stem)
    \/ \E order \in Orders(DOMAIN archived_chunks) : SyncFromLocalChunks(order)
    \/ SyncExit

SpecSync == Init /\ [][NextSync]_vars

Synced == pc = "synced"

ArtifactsOf(filename) ==
    {stem \in DOMAIN archived_chunks :
        archived_chunks[stem].filename = filename}

SameIdsAsArtifact(records, stem) ==
    LET chunk_data == archived_chunks[stem]
    IN  /\ chunk_data.filename \in DOMAIN records
        /\ Range(records[chunk_data.filename].chunk_ids) =
               Range(artifact_chunk_ids(chunk_data))

\* C27: after sync_from_local_chunks no tracking record has been removed;
\* every artifact of the archive has a record of its filename with the
\* artifact's set of chunk ids; a record that already had that set is
\* untouched, content_hash included; records of filenames without an
\* artifact are unchanged; and a second sync right after the first adds
\* and updates nothing.
C27_SyncOnlyAddsOrOverwrites ==
    Synced =>
        /\ DOMAIN PreTracked \subseteq DOMAIN TrackedNow
        /\ \A stem \in DOMAIN archived_chunks :
               /\ SameIdsAsArtifact(TrackedNow, stem)
               /\ SameIdsAsArtifact(PreTracked, stem) =>
                      TrackedNow[archived_chunks[stem].filename] =
                          PreTracked[archived_chunks[stem].filename]
        /\ \A filename \in DOMAIN PreTracked :
               ArtifactsOf(filename) = {} =>
                   TrackedNow[filename] = PreTracked[filename]
        /\ Len(calls) >= 2 =>
               /\ calls[Len(calls)].added = 0
               /\ calls[Len(calls)].updated = 0
               /\ TrackedNow = PreTracked

\* A sync that added one record, overwrote another and was followed by a
\* second sync.
C27_Witness ==
    /\ Synced
    /\ Len(calls) = 2
    /\ calls[1].added > 0
    /\ calls[1].updated > 0
    /\ calls[2].skipped = 2

====
